---- MODULE Spec2Model ----
(***************************************************************************)
(* Credential handling of homebridge-tuya-web: the signed client           *)
(* (TuyaOpenAPI), the encrypted client (TuyaMobileAPI) and the platform    *)
(* wiring between them (TuyaWebPlatform).                                  *)
(*                                                                         *)
(* src/src/api/TuyaOpenAPI.ts holds two drafts of the signed client: one   *)
(* that extends the validity window locally and guards refreshes with      *)
(* isRefreshing/refreshPromise (lines 28-282), and one that refreshes over *)
(* the network and notifies onTokenRefresh (lines 311-569).  The variable  *)
(* variant says which draft is built; it never changes.                    *)
(*                                                                         *)
(* Time is in milliseconds (Date.now()).  An async call is a process: its  *)
(* synchronous part is one action, every continuation after an await is    *)
(* another.  Promise reactions run in registration order, so the owner of  *)
(* a refresh promise runs its finally block before any waiter resumes.     *)
(***************************************************************************)
EXTENDS Integers, Sequences, FiniteSets, TLC

\* ---------------------------------------------------------------- bounds
MaxTicks == 2          \* number of clock advances in a run
MaxCalls == 3          \* number of calls (timer, direct, request) in a run
MaxPollTicks == 3      \* clock advances while the platform polls
MaxCycles == 3         \* poll cycles in a run
MaxAuthCalls == 2      \* authenticated operations invoked in a run
MaxQRTicks == 4        \* clock advances while the QR code is polled
MaxInFlight == 2       \* status checks of one QR code in flight at once
MaxStatusLen == 3      \* entries of a status array
MaxRequests == 3       \* requests of the encrypted client
MaxPlainLen == 2       \* bytes of a plaintext
MaxCacheTicks == 3     \* clock advances of a device-state cache
MaxRateTicks == 3      \* clock advances while status reads are rate limited
MaxReads == 3          \* calls of getDeviceState in a run
MaxTimerTicks == 3     \* clock advances while the refresh timer is watched
MaxLinkTicks == 2      \* clock advances while an account is linked
MaxQRCodes == 2        \* QR codes requested in a run
MaxLinkChecks == 3     \* status checks called in a run

\* ------------------------------------------------------ program constants
MARGIN == 5 * 60 * 1000
EXTENSION == 2 * 60 * 60 * 1000
TUYA_DEVICE_TIMEOUT == 60

\* ------------------------------------------------------------- data model
Tok(a, r, e) == [present |-> TRUE, accessToken |-> a, refreshToken |-> r, expiresAt |-> e, uid |-> 1]
NoTokens == [present |-> FALSE, accessToken |-> 0, refreshToken |-> 0, expiresAt |-> 0, uid |-> 0]

\* !tokens?.refreshToken is false: a TokenSet is held and its refresh token is a non-empty string
HasRefreshToken(tokens) == tokens.present /\ tokens.refreshToken # 0

NoTimer == [armed |-> FALSE, fireAt |-> 0]

\* inputs of a run
InitExpiries == {MARGIN, MARGIN + 1, EXTENSION}
ConfigChoices == {NoTokens} \cup {Tok(1, r, e) : r \in {0, 1}, e \in InitExpiries}
StoredChoices == {NoTokens, Tok(1, 1, MARGIN + 1)}
TimeSteps == {1, EXTENSION - MARGIN}
ExpireTimes == {7200}
Outcomes == {"success", "failure", "rejected"}

VARIABLES
  variant,            \* "extend" | "network": which draft of TuyaOpenAPI
  now,                \* Date.now()
  ticks,              \* clock advances so far
  platform,           \* position of TuyaWebPlatform: init, ready, discovering, polling, unlinked, failed
  configTokens,       \* TuyaWebPlatform.config.tokens
  storedTokens,       \* content of the token file (TokenStorage)
  openTokens,         \* TuyaOpenAPI.tokens
  tokenRefreshTimer,  \* TuyaOpenAPI.tokenRefreshTimer
  isRefreshing,       \* TuyaOpenAPI.isRefreshing
  refreshPromise,     \* TuyaOpenAPI.refreshPromise (index into ops, 0 = undefined)
  mobileTokens,       \* TuyaMobileAPI.tokens
  mobileIsRefreshing, \* TuyaMobileAPI.isRefreshing
  mobileRefreshPromise, \* TuyaMobileAPI.refreshPromise (index into ops, 0 = undefined)
  ops,                \* the refresh operations started so far (promises)
  procs,              \* the calls started so far
  issued,             \* number of TokenSets the provider has issued
  rejectedTokens,     \* refresh tokens the provider has hard-rejected
  gate,               \* what discoverDevices saw and decided
  pollingTimer,       \* TuyaWebPlatform.pollingTimer is armed
  shutdown            \* the shutdown handler has run

credSide == <<variant, now, ticks, platform, configTokens, storedTokens, openTokens,
              tokenRefreshTimer, isRefreshing, refreshPromise, mobileTokens,
              mobileIsRefreshing, mobileRefreshPromise, ops, procs, issued,
              rejectedTokens, gate, pollingTimer, shutdown>>

\* the polling loop of TuyaWebPlatform.startPolling, on its own
VARIABLES
  pollingInterval,    \* config.pollingInterval in seconds (0 = not configured)
  pollNow,            \* Date.now()
  pollTicks,          \* clock advances so far
  pollTimer,          \* the interval timer: armed, and when it fires next
  accessories,        \* the accessory registry: device id -> last state applied
  cycles              \* the poll cycles started so far

pollSide == <<pollingInterval, pollNow, pollTicks, pollTimer, accessories, cycles>>

\* authenticated operations invoked on the three clients
VARIABLES
  customerApi,        \* TuyaWebApi.customerApi of the sharing service is set
  authCalls           \* the operations invoked so far and how each ended

authSide == <<customerApi, authCalls>>

\* QR authorization polling: LoginControl.waitForLogin (the sharing service)
\* and TuyaLinkingAuth.pollForAuthorization
VARIABLES
  qrImpl,             \* "LoginControl" | "TuyaLinkingAuth"
  qrNow,              \* Date.now()
  qrTicks,            \* clock advances so far
  qrState,            \* idle, polling, done
  qrOutcome,          \* none, success, expired, timeout, error
  qrParams,           \* intervalMs, timeoutMs and the start time of the call
  qrTimer,            \* the timer that starts the next status check
  qrInFlight,         \* status checks sent and not yet answered
  qrChecks,           \* status checks sent so far
  qrExpiredReported,  \* the provider has answered with the expiry code
  currentQRToken      \* TuyaLinkingAuth.currentQRToken is set

qrSide == <<qrImpl, qrNow, qrTicks, qrState, qrOutcome, qrParams, qrTimer, qrInFlight,
            qrChecks, qrExpiredReported, currentQRToken>>

\* loading the stored credentials at startup: TokenStorage with
\* TuyaWebPlatform.loadAndRestoreTokens, and TuyaWebApi.loadTokens with
\* getOrRefreshToken of the sharing service
VARIABLES
  loadImpl,           \* "TokenStorage" | "TuyaWebApi"
  tokenFile,          \* what the token file holds
  hasConfigTokens,    \* config.tokens.accessToken is set
  loadResult          \* what the loader returned and how startup went on

loadSide == <<loadImpl, tokenFile, hasConfigTokens, loadResult>>

\* the translation functions, applied to one input
VARIABLES
  arg,                \* the input of the function, a record
  result              \* [done |-> FALSE] before the call, then the value returned

pureSide == <<arg, result>>

\* the sharing service's cache of code mappings
VARIABLES
  deviceCodeMap,      \* device id -> [has |-> FALSE] or [has |-> TRUE, mapping |-> ...]
  discovered,         \* device id -> the status codes of the latest discovery that held it
  lastCall            \* the operation that ran last

devSide == <<deviceCodeMap, discovered, lastCall>>

\* the requests of the encrypted client (TuyaMobileAPI.request)
VARIABLES
  requests            \* one record per call: its rid, its secret, how far it is, how it ended

encSide == <<requests>>

encIdle == requests = <<>>

\* one device-state cache (Cache), the clock it reads, and what its caller saw
VARIABLES
  cacheValue,         \* Cache.value
  validUntil,         \* Cache.validUntil
  cacheNow,           \* Cache.getCurrentEpoch(), in seconds
  cacheTicks,         \* clock advances so far
  lastOp,             \* the most recent call of the cache and what it returned
  prevOp,             \* the call before it
  stampedAt,          \* when set() last ran since the last clear(), -1 if it has not
  cleared             \* clear() was called and the caller has not called set() since

cacheSide == <<cacheValue, validUntil, cacheNow, cacheTicks, lastOp, prevOp, stampedAt, cleared>>

CacheFields == {"online", "brightness"}
NoState == [f \in CacheFields |-> 0]
NoOp == [op |-> "none", always |-> FALSE, data |-> NoState,
         out |-> [defined |-> FALSE], expiredBefore |-> FALSE, at |-> 0]

cacheIdle ==
  /\ cacheValue = [defined |-> FALSE]
  /\ validUntil = 0
  /\ cacheNow = 1
  /\ cacheTicks = 0
  /\ lastOp = NoOp
  /\ prevOp = NoOp
  /\ stampedAt = -1
  /\ cleared = FALSE

\* discovery by the platform
VARIABLES
  discImpl,               \* which platform and service discover
  discoveredCacheUUIDs,   \* TuyaWebPlatform.discoveredCacheUUIDs (response.ts)
  lastDiscovery           \* the latest discovery run: what failed, what it removed

discSide == <<discImpl, discoveredCacheUUIDs, lastDiscovery>>

NoDiscovery == [ran |-> FALSE, failure |-> FALSE, thrown |-> FALSE, before |-> {}, removed |-> {}]

discIdle ==
  /\ discImpl = "sharing"
  /\ discoveredCacheUUIDs = {}
  /\ lastDiscovery = NoDiscovery

\* rate limiting of status reads (the TuyaWebApi wrapper)
VARIABLES
  lastRequestTime,    \* TuyaWebApi.lastRequestTime
  rateNow,            \* Date.now()
  rateTicks,          \* clock advances so far
  reads               \* the calls of getDeviceState: where each is, when its request went out

rateSide == <<lastRequestTime, rateNow, rateTicks, reads>>

rateIdle ==
  /\ lastRequestTime = 0
  /\ rateNow = 1000
  /\ rateTicks = 0
  /\ reads = <<>>

\* the proactive refresh timer of the signed client, with the runtime's timers
VARIABLES
  tmNow,              \* Date.now()
  tmTicks,            \* clock advances so far
  tmTokens,           \* TuyaOpenAPI.tokens
  tmField,            \* TuyaOpenAPI.tokenRefreshTimer: the handle it holds
  tmPending,          \* the timeouts of the runtime that are set and have not fired
  tmInstalledAt,      \* when the tokens held were installed or refreshed
  tmLastFire,         \* the latest timeout that fired, and whether it was the field's
  tmDown              \* destroy() has run

timerSide == <<tmNow, tmTicks, tmTokens, tmField, tmPending, tmInstalledAt, tmLastFire, tmDown>>

NoHandle == [set |-> FALSE]
NoFire == [happened |-> FALSE, current |-> FALSE, forHeld |-> FALSE, attempt |-> "none"]

timerIdle ==
  /\ tmNow = 0
  /\ tmTicks = 0
  /\ tmTokens = NoTokens
  /\ tmField = NoHandle
  /\ tmPending = {}
  /\ tmInstalledAt = 0
  /\ tmLastFire = NoFire
  /\ tmDown = FALSE

\* linking an account with a QR code: the linking class and the settings page
VARIABLES
  lkImpl,             \* which of the two holds the linking state
  lkNow,              \* Date.now()
  lkTicks,            \* clock advances so far
  linkingState,       \* currentQRToken / linkingState: the QR code held, if any
  lkIssued,           \* QR codes the provider has issued
  lkQRInFlight,       \* requests for a QR code that are not answered yet
  lkChecks,           \* status checks sent to the provider and not answered yet
  lkStarted,          \* status checks called so far
  lkConsumed,         \* QR codes a status check has returned authorized or expired for
  lkCleared,          \* such a return happened and no QR code was installed since
  lkLast              \* the latest call or return

linkSide == <<lkImpl, lkNow, lkTicks, linkingState, lkIssued, lkQRInFlight, lkChecks, lkStarted,
              lkConsumed, lkCleared, lkLast>>

NoLinking == [held |-> FALSE]
NoLinkOp == [op |-> "none", local |-> FALSE, qrcode |-> 0, status |-> "none"]

linkIdle ==
  /\ lkImpl = "TuyaLinkingAuth"
  /\ lkNow = 0
  /\ lkTicks = 0
  /\ linkingState = NoLinking
  /\ lkIssued = 0
  /\ lkQRInFlight = 0
  /\ lkChecks = {}
  /\ lkStarted = 0
  /\ lkConsumed = {}
  /\ lkCleared = FALSE
  /\ lkLast = NoLinkOp

vars == <<credSide, pollSide, authSide, qrSide, loadSide, pureSide, devSide, encSide, cacheSide,
          discSide, rateSide, timerSide, linkSide>>

\* what each part of the model leaves alone
notCred == <<pollSide, authSide, qrSide, loadSide, pureSide, devSide, encSide, cacheSide, discSide, rateSide, timerSide, linkSide>>
notPoll == <<credSide, authSide, qrSide, loadSide, pureSide, devSide, encSide, cacheSide, discSide, rateSide, timerSide, linkSide>>
notAuth == <<pollSide, qrSide, loadSide, pureSide, devSide, encSide, cacheSide, discSide, rateSide, timerSide, linkSide>>
notQR == <<credSide, pollSide, authSide, loadSide, pureSide, devSide, encSide, cacheSide, discSide, rateSide, timerSide, linkSide>>
notLoad == <<credSide, pollSide, authSide, qrSide, pureSide, devSide, encSide, cacheSide, discSide, rateSide, timerSide, linkSide>>
notPure == <<credSide, pollSide, authSide, qrSide, loadSide, devSide, encSide, cacheSide, discSide, rateSide, timerSide, linkSide>>
notDev == <<credSide, pollSide, qrSide, loadSide, pureSide, encSide, cacheSide, discSide, rateSide, timerSide, linkSide>>
notEnc == <<pollSide, authSide, qrSide, loadSide, pureSide, devSide, cacheSide, discSide, rateSide, timerSide, linkSide>>
notCache == <<credSide, pollSide, authSide, qrSide, loadSide, pureSide, devSide, encSide, discSide, rateSide, timerSide, linkSide>>
notRate == <<credSide, pollSide, authSide, qrSide, loadSide, pureSide, devSide, encSide,
            cacheSide, discSide, timerSide, linkSide>>
notTimer == <<credSide, pollSide, authSide, qrSide, loadSide, pureSide, devSide, encSide,
             cacheSide, discSide, rateSide, linkSide>>
notLink == <<credSide, pollSide, authSide, qrSide, loadSide, pureSide, devSide, encSide,
            cacheSide, discSide, rateSide, timerSide>>

NoMapping == [has |-> FALSE]
NotReported == [seen |-> FALSE]
NoCall == [op |-> "none"]
DeviceIds == {1, 2}

\* new Map<string, DeviceCodeMapping>()
devIdle ==
  /\ deviceCodeMap = [id \in DeviceIds |-> NoMapping]
  /\ discovered = [id \in DeviceIds |-> NotReported]
  /\ lastCall = NoCall

NoArg == [fn |-> "none"]
NoResult == [done |-> FALSE]
Returned(v) == [done |-> TRUE, value |-> v]

pureIdle ==
  /\ arg = NoArg
  /\ result = NoResult

NotLoaded == [done |-> FALSE, stored |-> "none", raised |-> FALSE, next |-> "none"]

loadIdle ==
  /\ loadImpl = "TokenStorage"
  /\ tokenFile = [kind |-> "missing", fields |-> {}]
  /\ hasConfigTokens = FALSE
  /\ loadResult = NotLoaded

qrIdle ==
  /\ qrImpl = "LoginControl"
  /\ qrNow = 0
  /\ qrTicks = 0
  /\ qrState = "idle"
  /\ qrOutcome = "none"
  /\ qrParams = [intervalMs |-> 0, timeoutMs |-> 0, startTime |-> 0]
  /\ qrTimer = NoTimer
  /\ qrInFlight = 0
  /\ qrChecks = 0
  /\ qrExpiredReported = FALSE
  /\ currentQRToken = FALSE

authIdle ==
  /\ customerApi = FALSE
  /\ authCalls = <<>>

\* the polling loop before startPolling() has run
pollIdle ==
  /\ pollingInterval = 0
  /\ pollNow = 0
  /\ pollTicks = 0
  /\ pollTimer = NoTimer
  /\ accessories = <<>>
  /\ cycles = <<>>

\* ------------------------------------------------------------ TuyaOpenAPI
\* the comparison written as "not less than"
hasValidTokens_AtLeast(tokens, t) ==
  IF ~tokens.present THEN FALSE
  ELSE tokens.expiresAt >= t + MARGIN

hasValidTokens(tokens, t) ==
  IF ~tokens.present THEN FALSE
  ELSE tokens.expiresAt > t + MARGIN

\* a timer set for the expiry itself
scheduleTokenRefresh_NoMargin(tokens, t) ==
  IF ~tokens.present THEN NoTimer
  ELSE IF tokens.expiresAt - t - MARGIN > 0
       THEN [armed |-> TRUE, fireAt |-> tokens.expiresAt] ELSE NoTimer

scheduleTokenRefresh(tokens, t) ==
  IF ~tokens.present THEN NoTimer
  ELSE LET refreshIn == tokens.expiresAt - t - MARGIN
       IN IF refreshIn > 0 THEN [armed |-> TRUE, fireAt |-> t + refreshIn] ELSE NoTimer

\* the object literal without the spread of this.tokens
doRefreshToken_NoSpread(tokens, t) ==
  [present |-> TRUE, accessToken |-> 0, refreshToken |-> 0,
   expiresAt |-> t + EXTENSION, uid |-> 0]

doRefreshToken(tokens, t) == [tokens EXCEPT !.expiresAt = t + EXTENSION]

\* ---------------------------------------------------------- TuyaMobileAPI
isTokenExpired(tokens, t) ==
  IF ~tokens.present THEN TRUE
  ELSE tokens.expiresAt < t + MARGIN

\* ------------------------------------------------------------- operations
NewOp(layer, state, val, net) ==
  [layer |-> layer, state |-> state, val |-> val, released |-> FALSE,
   notified |-> 0, net |-> net, hard |-> FALSE]

NewProc(kind, pc, op, mop, status, val, disc) ==
  [kind |-> kind, pc |-> pc, op |-> op, mop |-> mop, status |-> status,
   val |-> val, disc |-> disc]

\* refreshAccessToken() without its first check
RefreshStart_NoCheck(base, curTimer) ==
  IF variant = "extend"
  THEN IF isRefreshing /\ refreshPromise # 0
       THEN [outcome |-> "wait", tokens |-> openTokens, timer |-> curTimer,
             isRefreshing |-> isRefreshing, refreshPromise |-> refreshPromise,
             newOps |-> <<>>, op |-> refreshPromise]
       ELSE LET t == doRefreshToken(openTokens, now)
            IN [outcome |-> "own", tokens |-> t, timer |-> scheduleTokenRefresh(t, now),
                isRefreshing |-> TRUE, refreshPromise |-> base + 1,
                newOps |-> <<NewOp("open", "resolved", t, FALSE)>>, op |-> base + 1]
  ELSE [outcome |-> "net", tokens |-> openTokens, timer |-> curTimer,
        isRefreshing |-> isRefreshing, refreshPromise |-> refreshPromise,
        newOps |-> <<NewOp("open", "pending", openTokens, TRUE)>>, op |-> base + 1]

\* The synchronous part of refreshAccessToken(): what it leaves in the fields
\* of the signed client, and where the caller is suspended.  base is the
\* number of operations existing when it is called, curTimer the timer field.
RefreshStart(base, curTimer) ==
  IF ~HasRefreshToken(openTokens)
  THEN [outcome |-> "throw", tokens |-> openTokens, timer |-> curTimer,
        isRefreshing |-> isRefreshing, refreshPromise |-> refreshPromise,
        newOps |-> <<>>, op |-> 0]
  ELSE IF variant = "extend"
  THEN IF isRefreshing /\ refreshPromise # 0
       THEN [outcome |-> "wait", tokens |-> openTokens, timer |-> curTimer,
             isRefreshing |-> isRefreshing, refreshPromise |-> refreshPromise,
             newOps |-> <<>>, op |-> refreshPromise]
       ELSE LET t == doRefreshToken(openTokens, now)
            IN [outcome |-> "own", tokens |-> t, timer |-> scheduleTokenRefresh(t, now),
                isRefreshing |-> TRUE, refreshPromise |-> base + 1,
                newOps |-> <<NewOp("open", "resolved", t, FALSE)>>, op |-> base + 1]
  ELSE [outcome |-> "net", tokens |-> openTokens, timer |-> curTimer,
        isRefreshing |-> isRefreshing, refreshPromise |-> refreshPromise,
        newOps |-> <<NewOp("open", "pending", openTokens, TRUE)>>, op |-> base + 1]

PcOf(outcome) ==
  CASE outcome = "wait" -> "openWaiter"
    [] outcome = "own" -> "openOwner"
    [] outcome = "net" -> "openNet"
    [] OTHER -> "done"

\* a continuation is ready to run (a microtask is queued)
Runnable(i) ==
  \/ procs[i].pc \in {"openOwner", "mobOwner"}
  \/ procs[i].pc = "openWaiter" /\ ops[procs[i].op].released
  \/ procs[i].pc = "mobWaiter" /\ ops[procs[i].mop].released
NoMicrotask == \A i \in 1..Len(procs) : ~Runnable(i)

Init ==
  /\ timerIdle
  /\ linkIdle
  /\ rateIdle
  /\ discIdle
  /\ cacheIdle
  /\ encIdle
  /\ variant \in {"extend", "network"}
  /\ now = 0
  /\ ticks = 0
  /\ platform = "init"
  /\ configTokens \in ConfigChoices
  /\ storedTokens \in StoredChoices
  /\ openTokens = NoTokens
  /\ tokenRefreshTimer = NoTimer
  /\ isRefreshing = FALSE
  /\ refreshPromise = 0
  /\ mobileTokens = NoTokens
  /\ mobileIsRefreshing = FALSE
  /\ mobileRefreshPromise = 0
  /\ ops = <<>>
  /\ procs = <<>>
  /\ issued = 1
  /\ rejectedTokens = {}
  /\ gate = [checked |-> FALSE, tokens |-> NoTokens, at |-> 0, valid |-> FALSE]
  /\ pollingTimer = FALSE
  /\ shutdown = FALSE
  /\ pollIdle
  /\ authIdle
  /\ qrIdle
  /\ loadIdle
  /\ pureIdle
  /\ devIdle

openSide == <<openTokens, tokenRefreshTimer, isRefreshing, refreshPromise>>
mobileSide == <<mobileTokens, mobileIsRefreshing, mobileRefreshPromise>>
persisted == <<configTokens, storedTokens>>
clock == <<variant, now, ticks>>
lifecycle == <<pollingTimer, shutdown>>

\* the clock advances (not between the two halves of the launch handler)
Tick(d) ==
  /\ UNCHANGED notCred
  /\ ticks < MaxTicks
  /\ platform # "ready"
  /\ now' = now + d
  /\ ticks' = ticks + 1
  /\ UNCHANGED <<variant, platform, persisted, openSide, mobileSide, ops, procs,
                 issued, rejectedTokens, gate, lifecycle>>

\* TuyaWebPlatform.loadAndRestoreTokens: which TokenSet is restored
tokensToUse ==
  IF storedTokens.present /\ configTokens.present
  THEN IF storedTokens.expiresAt > configTokens.expiresAt THEN storedTokens ELSE configTokens
  ELSE IF storedTokens.present THEN storedTokens
  ELSE IF configTokens.present /\ configTokens.accessToken # 0 THEN configTokens
  ELSE NoTokens

\* didFinishLaunching, first half: setTokens on both clients
loadAndRestoreTokens ==
  /\ UNCHANGED notCred
  /\ platform = "init"
  /\ platform' = "ready"
  /\ IF tokensToUse.present
     THEN /\ openTokens' = tokensToUse
          /\ tokenRefreshTimer' = scheduleTokenRefresh(tokensToUse, now)
          /\ mobileTokens' = tokensToUse
     ELSE UNCHANGED <<openTokens, tokenRefreshTimer, mobileTokens>>
  /\ UNCHANGED <<clock, persisted, isRefreshing, refreshPromise, mobileIsRefreshing,
                 mobileRefreshPromise, ops, procs, issued, rejectedTokens, gate,
                 lifecycle>>

\* where the platform stands once a request of the discovery run has ended
PlatformAfter(disc, status, cur) ==
  IF disc THEN (IF status = "ok" THEN "polling" ELSE "failed") ELSE cur

\* startPolling() runs once the discovery request has succeeded: the interval
\* timer is armed (an armed one is cleared and armed again)
startPolling(disc, status, cur) ==
  IF disc /\ status = "ok" THEN TRUE ELSE cur

\* TuyaMobileAPI.request up to its first suspension: the refresh-token check,
\* ensureValidToken and, through the refresh handler, refreshAccessToken
RequestBegin(disc) ==
  /\ Len(procs) < MaxCalls
  /\ IF ~HasRefreshToken(mobileTokens)
     THEN /\ procs' = Append(procs, NewProc("request", "done", 0, 0, "error", mobileTokens, disc))
          /\ platform' = PlatformAfter(disc, "error", platform)
          /\ pollingTimer' = startPolling(disc, "error", pollingTimer)
          /\ UNCHANGED <<openSide, mobileSide, ops>>
     ELSE IF ~isTokenExpired(mobileTokens, now)
     THEN /\ procs' = Append(procs, NewProc("request", "done", 0, 0, "ok", mobileTokens, disc))
          /\ platform' = PlatformAfter(disc, "ok", platform)
          /\ pollingTimer' = startPolling(disc, "ok", pollingTimer)
          /\ UNCHANGED <<openSide, mobileSide, ops>>
     ELSE IF mobileIsRefreshing /\ mobileRefreshPromise # 0
     THEN /\ procs' = Append(procs, NewProc("request", "mobWaiter", 0, mobileRefreshPromise,
                                            "none", NoTokens, disc))
          /\ platform' = IF disc THEN "discovering" ELSE platform
          /\ pollingTimer' = pollingTimer
          /\ UNCHANGED <<openSide, mobileSide, ops>>
     ELSE LET m == Len(ops) + 1
              r == RefreshStart(m, tokenRefreshTimer)
          IN /\ mobileIsRefreshing' = TRUE
             /\ mobileRefreshPromise' = m
             /\ mobileTokens' = mobileTokens
             /\ ops' = (ops \o <<NewOp("mobile",
                                       IF r.outcome = "throw" THEN "rejected" ELSE "pending",
                                       NoTokens, FALSE)>>) \o r.newOps
             /\ procs' = Append(procs, NewProc("request",
                                   IF r.outcome = "throw" THEN "mobOwner" ELSE PcOf(r.outcome),
                                   r.op, m, "none", NoTokens, disc))
             /\ openTokens' = r.tokens
             /\ tokenRefreshTimer' = r.timer
             /\ isRefreshing' = r.isRefreshing
             /\ refreshPromise' = r.refreshPromise
             /\ platform' = IF disc THEN "discovering" ELSE platform
             /\ pollingTimer' = pollingTimer

\* didFinishLaunching, second half: TuyaWebPlatform.discoverDevices
discoverDevices ==
  /\ UNCHANGED notCred
  /\ platform = "ready"
  /\ gate' = [checked |-> TRUE, tokens |-> openTokens, at |-> now,
              valid |-> hasValidTokens(openTokens, now)]
  /\ IF ~hasValidTokens(openTokens, now)
     THEN /\ platform' = "unlinked"
          /\ UNCHANGED <<openSide, mobileSide, ops, procs, pollingTimer>>
     ELSE RequestBegin(TRUE)
  /\ UNCHANGED <<clock, persisted, issued, rejectedTokens, shutdown>>

\* a device operation of a poll cycle or of an accessory
RequestStart ==
  /\ UNCHANGED notCred
  /\ platform = "polling"
  /\ pollingTimer
  /\ RequestBegin(FALSE)
  /\ UNCHANGED <<clock, persisted, issued, rejectedTokens, gate, shutdown>>

\* refreshAccessToken() called by a collaborator that holds getApi()
DirectRefresh ==
  /\ UNCHANGED notCred
  /\ platform # "ready"
  /\ Len(procs) < MaxCalls
  /\ LET r == RefreshStart(Len(ops), tokenRefreshTimer)
     IN /\ openTokens' = r.tokens
        /\ tokenRefreshTimer' = r.timer
        /\ isRefreshing' = r.isRefreshing
        /\ refreshPromise' = r.refreshPromise
        /\ ops' = ops \o r.newOps
        /\ procs' = Append(procs, NewProc("direct", PcOf(r.outcome), r.op, 0,
                              IF r.outcome = "throw" THEN "error" ELSE "none",
                              NoTokens, FALSE))
  /\ UNCHANGED <<clock, platform, persisted, mobileSide, issued, rejectedTokens, gate,
                 lifecycle>>

\* the callback armed by scheduleTokenRefresh: try { await refreshAccessToken() } catch { log }
TimerFire ==
  /\ UNCHANGED notCred
  /\ platform # "ready"
  /\ NoMicrotask
  /\ tokenRefreshTimer.armed
  /\ now >= tokenRefreshTimer.fireAt
  /\ Len(procs) < MaxCalls
  /\ LET r == RefreshStart(Len(ops), NoTimer)
     IN /\ openTokens' = r.tokens
        /\ tokenRefreshTimer' = r.timer
        /\ isRefreshing' = r.isRefreshing
        /\ refreshPromise' = r.refreshPromise
        /\ ops' = ops \o r.newOps
        /\ procs' = Append(procs, NewProc("timer", PcOf(r.outcome), r.op, 0,
                              IF r.outcome = "throw" THEN "caught" ELSE "none",
                              NoTokens, FALSE))
  /\ UNCHANGED <<clock, platform, persisted, mobileSide, issued, rejectedTokens, gate,
                 lifecycle>>

\* a finally block that forgets the failure path
ReleaseGuard_OnSuccessOnly(ok, guard) ==
  IF ok THEN [isRefreshing |-> FALSE, refreshPromise |-> 0] ELSE guard

\* try { ... await this.refreshPromise ... } finally { isRefreshing = false;
\* refreshPromise = undefined }: the guard fields after the block, whatever
\* the outcome ok and whatever the guard held
ReleaseGuard(ok, guard) == [isRefreshing |-> FALSE, refreshPromise |-> 0]

\* a timer callback without its try/catch
CallStatus_NoCatch(kind, ok) ==
  IF ok THEN "ok" ELSE "error"

\* how a caller ends once its status is known: the timer callback catches
CallStatus(kind, ok) ==
  IF ok THEN "ok" ELSE IF kind = "timer" THEN "caught" ELSE "error"

\* refreshAccessToken() of call i has produced its result: the call ends, or,
\* inside the refresh handler, the handler's promise settles with it
FinishOpen(i, ok, v, opsBase) ==
  IF procs[i].kind = "request"
  THEN /\ procs' = [procs EXCEPT ![i].pc = "mobOwner"]
       /\ ops' = [opsBase EXCEPT ![procs[i].mop].state = IF ok THEN "resolved" ELSE "rejected",
                                 ![procs[i].mop].val = v]
  ELSE /\ procs' = [procs EXCEPT ![i].pc = "done",
                                 ![i].status = CallStatus(procs[i].kind, ok),
                                 ![i].val = v]
       /\ ops' = opsBase

\* the owner resumes after await this.refreshPromise: the finally block
OpenFinally(i) ==
  /\ UNCHANGED notCred
  /\ i \in 1..Len(procs)
  /\ procs[i].pc = "openOwner"
  /\ LET o == procs[i].op
         g == ReleaseGuard(ops[o].state = "resolved",
                           [isRefreshing |-> isRefreshing, refreshPromise |-> refreshPromise])
     IN /\ isRefreshing' = g.isRefreshing
        /\ refreshPromise' = g.refreshPromise
  /\ LET o == procs[i].op
     IN FinishOpen(i, ops[o].state = "resolved", ops[o].val,
                   [ops EXCEPT ![o].released = TRUE])
  /\ UNCHANGED <<clock, platform, persisted, openTokens, tokenRefreshTimer, mobileSide,
                 issued, rejectedTokens, gate, lifecycle>>

\* a caller that was handed the pending promise receives its result
OpenWaiterResume(i) ==
  /\ UNCHANGED notCred
  /\ i \in 1..Len(procs)
  /\ procs[i].pc = "openWaiter"
  /\ ops[procs[i].op].released
  /\ LET o == procs[i].op
     IN FinishOpen(i, ops[o].state = "resolved", ops[o].val, ops)
  /\ UNCHANGED <<clock, platform, persisted, openSide, mobileSide, issued,
                 rejectedTokens, gate, lifecycle>>

\* the provider answers GET /v1.0/token/{refreshToken} (networked draft)
NetworkRespond(i, outcome, et) ==
  /\ UNCHANGED notCred
  /\ i \in 1..Len(procs)
  /\ procs[i].pc = "openNet"
  /\ NoMicrotask
  /\ LET o == procs[i].op
         used == ops[o].val.refreshToken
         fresh == Tok(issued + 1, issued + 1, now + et * 1000)
     IN IF outcome = "success"
        THEN /\ used \notin rejectedTokens
             /\ openTokens' = fresh
             /\ tokenRefreshTimer' = scheduleTokenRefresh(fresh, now)
             /\ mobileTokens' = fresh
             /\ configTokens' = fresh
             /\ storedTokens' = fresh
             /\ issued' = issued + 1
             /\ rejectedTokens' = rejectedTokens
             /\ FinishOpen(i, TRUE, fresh,
                           [ops EXCEPT ![o].state = "resolved", ![o].val = fresh,
                                       ![o].released = TRUE,
                                       ![o].notified = ops[o].notified + 1])
        ELSE /\ rejectedTokens' = IF outcome = "rejected"
                                  THEN rejectedTokens \cup {used} ELSE rejectedTokens
             /\ FinishOpen(i, FALSE, ops[o].val,
                           [ops EXCEPT ![o].state = "rejected", ![o].released = TRUE,
                                       ![o].hard = (outcome = "rejected")])
             /\ UNCHANGED <<openTokens, tokenRefreshTimer, mobileTokens, persisted, issued>>
  /\ UNCHANGED <<clock, platform, isRefreshing, refreshPromise, mobileIsRefreshing,
                 mobileRefreshPromise, gate, lifecycle>>

\* ensureValidToken resumes after await this.refreshPromise, then request goes on
MobileFinally(i) ==
  /\ UNCHANGED notCred
  /\ i \in 1..Len(procs)
  /\ procs[i].pc = "mobOwner"
  /\ LET m == procs[i].mop
         ok == ops[m].state = "resolved"
         t == IF ok THEN ops[m].val ELSE mobileTokens
         g == ReleaseGuard(ok, [isRefreshing |-> mobileIsRefreshing,
                                refreshPromise |-> mobileRefreshPromise])
     IN /\ mobileTokens' = t
        /\ mobileIsRefreshing' = g.isRefreshing
        /\ mobileRefreshPromise' = g.refreshPromise
        /\ ops' = [ops EXCEPT ![m].released = TRUE]
        /\ procs' = [procs EXCEPT ![i].pc = "done",
                                  ![i].status = IF ok THEN "ok" ELSE "error",
                                  ![i].val = t]
        /\ platform' = PlatformAfter(procs[i].disc, IF ok THEN "ok" ELSE "error", platform)
        /\ pollingTimer' = startPolling(procs[i].disc, IF ok THEN "ok" ELSE "error",
                                        pollingTimer)
  /\ UNCHANGED <<clock, persisted, openSide, issued, rejectedTokens, gate, shutdown>>

\* a request that found the refresh in flight resumes
MobileWaiterResume(i) ==
  /\ UNCHANGED notCred
  /\ i \in 1..Len(procs)
  /\ procs[i].pc = "mobWaiter"
  /\ ops[procs[i].mop].released
  /\ LET ok == ops[procs[i].mop].state = "resolved"
     IN /\ procs' = [procs EXCEPT ![i].pc = "done",
                                  ![i].status = IF ok THEN "ok" ELSE "error",
                                  ![i].val = mobileTokens]
        /\ platform' = PlatformAfter(procs[i].disc, IF ok THEN "ok" ELSE "error", platform)
        /\ pollingTimer' = startPolling(procs[i].disc, IF ok THEN "ok" ELSE "error",
                                        pollingTimer)
  /\ UNCHANGED <<clock, persisted, openSide, mobileSide, ops, issued, rejectedTokens, gate,
                 shutdown>>

Next ==
  \/ \E d \in TimeSteps : Tick(d)
  \/ loadAndRestoreTokens
  \/ discoverDevices
  \/ RequestStart
  \/ DirectRefresh
  \/ TimerFire
  \/ \E i \in 1..MaxCalls : OpenFinally(i)
  \/ \E i \in 1..MaxCalls : OpenWaiterResume(i)
  \/ \E i \in 1..MaxCalls, oc \in Outcomes, et \in ExpireTimes : NetworkRespond(i, oc, et)
  \/ \E i \in 1..MaxCalls : MobileFinally(i)
  \/ \E i \in 1..MaxCalls : MobileWaiterResume(i)

Spec == Init /\ [][Next]_vars

\* the platform as wired in this repository: refreshAccessToken() is called
\* by the proactive timer and by the refresh handler only
NextWired ==
  \/ \E d \in TimeSteps : Tick(d)
  \/ loadAndRestoreTokens
  \/ discoverDevices
  \/ RequestStart
  \/ TimerFire
  \/ \E i \in 1..MaxCalls : OpenFinally(i)
  \/ \E i \in 1..MaxCalls : OpenWaiterResume(i)
  \/ \E i \in 1..MaxCalls, oc \in Outcomes, et \in ExpireTimes : NetworkRespond(i, oc, et)
  \/ \E i \in 1..MaxCalls : MobileFinally(i)
  \/ \E i \in 1..MaxCalls : MobileWaiterResume(i)

SpecWired == Init /\ [][NextWired]_vars

\* the shutdown handler: TuyaWebPlatform.destroy with TuyaOpenAPI.destroy
destroy ==
  /\ UNCHANGED notCred
  /\ platform \notin {"init", "ready"}
  /\ ~shutdown
  /\ shutdown' = TRUE
  /\ pollingTimer' = FALSE
  /\ tokenRefreshTimer' = NoTimer
  /\ UNCHANGED <<clock, platform, persisted, openTokens, isRefreshing, refreshPromise,
                 mobileSide, ops, procs, issued, rejectedTokens, gate>>

\* the wired platform with the host's shutdown event
NextShutdown ==
  \/ NextWired
  \/ destroy

SpecShutdown == Init /\ [][NextShutdown]_vars

TypeOK ==
  /\ variant \in {"extend", "network"}
  /\ pollingTimer \in BOOLEAN
  /\ shutdown \in BOOLEAN
  /\ isRefreshing \in BOOLEAN
  /\ mobileIsRefreshing \in BOOLEAN
  /\ Len(procs) <= MaxCalls

\* the credential side before the launch handler has run
credIdle ==
  /\ variant = "extend"
  /\ now = 0
  /\ ticks = 0
  /\ platform = "init"
  /\ configTokens = NoTokens
  /\ storedTokens = NoTokens
  /\ openTokens = NoTokens
  /\ tokenRefreshTimer = NoTimer
  /\ isRefreshing = FALSE
  /\ refreshPromise = 0
  /\ mobileTokens = NoTokens
  /\ mobileIsRefreshing = FALSE
  /\ mobileRefreshPromise = 0
  /\ ops = <<>>
  /\ procs = <<>>
  /\ issued = 1
  /\ rejectedTokens = {}
  /\ gate = [checked |-> FALSE, tokens |-> NoTokens, at |-> 0, valid |-> FALSE]
  /\ pollingTimer = FALSE
  /\ shutdown = FALSE

\* ------------------------------------------------------- the polling loop
PollingIntervals == {0, 30}
DeviceStates == {0, 1}
PollSteps == {1000, 30000}

\* (this.config.pollingInterval || 60) * 1000
interval == (IF pollingInterval = 0 THEN 60 ELSE pollingInterval) * 1000

\* a catch block that starts the next cycle at once
pollCatch_RetryNow(timer, t) == [armed |-> TRUE, fireAt |-> t]

\* catch (error) { this.log.error('Polling failed:', error) }: the interval
\* timer after the block
pollCatch(timer, t) == timer

\* the accessories after the loop over the reported devices: an accessory that
\* is registered takes the reported state, nothing is added or removed
updateAccessories(acc, reported) ==
  [id \in DOMAIN acc |-> IF id \in DOMAIN reported THEN reported[id] ELSE acc[id]]

InitPoll ==
  /\ timerIdle
  /\ linkIdle
  /\ rateIdle
  /\ discIdle
  /\ cacheIdle
  /\ encIdle
  /\ credIdle
  /\ pollingInterval \in PollingIntervals
  /\ pollNow = 0
  /\ pollTicks = 0
  /\ pollTimer = NoTimer
  /\ accessories \in UNION {[S -> {0}] : S \in SUBSET DeviceIds}
  /\ cycles = <<>>
  /\ authIdle
  /\ qrIdle
  /\ loadIdle
  /\ pureIdle
  /\ devIdle

PollTick(d) ==
  /\ pollTicks < MaxPollTicks
  /\ pollNow' = pollNow + d
  /\ pollTicks' = pollTicks + 1
  /\ UNCHANGED <<pollingInterval, pollTimer, accessories, cycles>>
  /\ UNCHANGED notPoll

\* startPolling(), called at the end of a successful discovery
startPollingTimer ==
  /\ cycles = <<>>
  /\ ~pollTimer.armed
  /\ pollTimer' = [armed |-> TRUE, fireAt |-> pollNow + interval]
  /\ UNCHANGED <<pollingInterval, pollNow, pollTicks, accessories, cycles>>
  /\ UNCHANGED notPoll

\* the interval callback starts: getAllDevices() is sent, the timer is
\* rescheduled one interval from now
PollFire ==
  /\ pollTimer.armed
  /\ pollNow >= pollTimer.fireAt
  /\ Len(cycles) < MaxCycles
  /\ cycles' = Append(cycles, [startedAt |-> pollNow, state |-> "running",
                                 registry |-> DOMAIN accessories, applied |-> {}])
  /\ pollTimer' = [armed |-> TRUE, fireAt |-> pollNow + interval]
  /\ UNCHANGED <<pollingInterval, pollNow, pollTicks, accessories>>
  /\ UNCHANGED notPoll

\* getAllDevices() of cycle c settles: the loop over the devices, or the catch
PollRespond(c, ok, reported) ==
  /\ c \in 1..Len(cycles)
  /\ cycles[c].state = "running"
  /\ IF ok
     THEN /\ accessories' = updateAccessories(accessories, reported)
          /\ pollTimer' = pollTimer
          /\ cycles' = [cycles EXCEPT ![c].state = "ok",
                                       ![c].applied = DOMAIN accessories \cap DOMAIN reported]
     ELSE /\ accessories' = accessories
          /\ pollTimer' = pollCatch(pollTimer, pollNow)
          /\ cycles' = [cycles EXCEPT ![c].state = "failed"]
  /\ UNCHANGED <<pollingInterval, pollNow, pollTicks>>
  /\ UNCHANGED notPoll

NextPoll ==
  \/ \E d \in PollSteps : PollTick(d)
  \/ startPollingTimer
  \/ PollFire
  \/ \E c \in 1..MaxCycles, ok \in BOOLEAN,
        reported \in UNION {[S -> DeviceStates] : S \in SUBSET DeviceIds} :
       PollRespond(c, ok, reported)

SpecPoll == InitPoll /\ [][NextPoll]_vars

\* ------------------------------------------- authenticated operations
AuthTokenChoices == {NoTokens} \cup {Tok(a, r, EXTENSION) : a \in {0, 1}, r \in {0, 1}}
ServiceOps == {"discoverDevices", "getDeviceState", "setDeviceState"}

Refused(msg) == [status |-> "error", error |-> msg, sent |-> FALSE]
Proceeds == [status |-> "sent", error |-> "", sent |-> TRUE]

\* a request interceptor that signs with whatever it finds
signRequest_Unchecked(tokens) == Proceeds

\* TuyaOpenAPI.signRequest, the request interceptor of the signed client
signRequest(tokens) ==
  IF ~(tokens.present /\ tokens.accessToken # 0)
  THEN Refused("No access token available. Please link your account first.")
  ELSE Proceeds

\* TuyaMobileAPI.request, its first statement
mobileRequest(tokens) ==
  IF ~HasRefreshToken(tokens)
  THEN Refused("No refresh token available. Cannot sign Mobile API request.")
  ELSE Proceeds

\* TuyaWebApi.discoverDevices / getDeviceState / setDeviceState of the sharing
\* service, their first statement
serviceCall(api) ==
  IF ~api THEN Refused("AuthenticationError: Not authenticated") ELSE Proceeds

credRest == <<clock, platform, persisted, isRefreshing, refreshPromise, mobileIsRefreshing,
              mobileRefreshPromise, ops, procs, issued, rejectedTokens, gate, lifecycle>>

InitAuth ==
  /\ timerIdle
  /\ linkIdle
  /\ rateIdle
  /\ discIdle
  /\ cacheIdle
  /\ encIdle
  /\ credIdle
  /\ pollIdle
  /\ authIdle
  /\ qrIdle
  /\ loadIdle
  /\ pureIdle
  /\ devIdle

\* setTokens on both clients, as after linking or restoring
AuthSetTokens(t) ==
  /\ openTokens' = t
  /\ tokenRefreshTimer' = scheduleTokenRefresh(t, now)
  /\ mobileTokens' = t
  /\ UNCHANGED <<credRest, authSide, notAuth>>

\* the sharing service creates its CustomerApi
AuthLogin ==
  /\ ~customerApi
  /\ customerApi' = TRUE
  /\ UNCHANGED <<credSide, authCalls, notAuth>>

AuthCall(client, op, r) ==
  /\ Len(authCalls) < MaxAuthCalls
  /\ authCalls' = Append(authCalls, [client |-> client, op |-> op, status |-> r.status,
                                      error |-> r.error, sent |-> r.sent])
  /\ UNCHANGED <<credSide, customerApi, notAuth>>

SignedRequest == AuthCall("signed", "request", signRequest(openTokens))
EncryptedRequest == AuthCall("encrypted", "request", mobileRequest(mobileTokens))
ServiceCall(op) == AuthCall("sharing", op, serviceCall(customerApi))

NextAuth ==
  \/ \E t \in AuthTokenChoices \ {NoTokens} : AuthSetTokens(t)
  \/ AuthLogin
  \/ SignedRequest
  \/ EncryptedRequest
  \/ \E op \in ServiceOps : ServiceCall(op)

SpecAuth == InitAuth /\ [][NextAuth]_vars

\* ------------------------------------------------ QR authorization polling
QRImpls == {"LoginControl", "TuyaLinkingAuth"}
\* what the provider answers to GET .../qrcode/tokens/{token}: not yet
\* authorized, the token pair, success=false with code 1106, or no answer
QRReplies == {"pending", "authorized", "expired", "error"}
QRSteps == {2000, 150000}

\* the default parameters of the two polling functions
defaultParams(impl, t) ==
  IF impl = "LoginControl"
  THEN [intervalMs |-> 2000, timeoutMs |-> 300000, startTime |-> t]
  ELSE [intervalMs |-> 2000, timeoutMs |-> 180000, startTime |-> t]

\* LoginControl.checkLoginResult: the token pair, or null for every answer
\* with success=false, or an exception
checkLoginResult(reply) ==
  CASE reply = "authorized" -> "result"
    [] reply = "error" -> "throw"
    [] OTHER -> "null"

\* TuyaLinkingAuth.checkAuthStatus
checkAuthStatus(reply) ==
  CASE reply = "authorized" -> "authorized"
    [] reply = "expired" -> "expired"
    [] reply = "error" -> "throw"
    [] OTHER -> "pending"

\* a promise that takes the latest resolve / reject
settle_Last(o) == o

\* resolve / reject of the promise: only the first call counts
settle(o) == IF qrOutcome = "none" THEN o ELSE qrOutcome

InitQR ==
  /\ timerIdle
  /\ linkIdle
  /\ rateIdle
  /\ discIdle
  /\ cacheIdle
  /\ encIdle
  /\ credIdle
  /\ pollIdle
  /\ authIdle
  /\ qrImpl \in QRImpls
  /\ qrNow = 0
  /\ qrTicks = 0
  /\ qrState = "idle"
  /\ qrOutcome = "none"
  /\ qrParams = [intervalMs |-> 0, timeoutMs |-> 0, startTime |-> 0]
  /\ qrTimer = NoTimer
  /\ qrInFlight = 0
  /\ qrChecks = 0
  /\ qrExpiredReported = FALSE
  /\ currentQRToken = FALSE
  /\ loadIdle
  /\ pureIdle
  /\ devIdle

QRTick(d) ==
  /\ qrTicks < MaxQRTicks
  /\ qrNow' = qrNow + d
  /\ qrTicks' = qrTicks + 1
  /\ UNCHANGED <<qrImpl, qrState, qrOutcome, qrParams, qrTimer, qrInFlight, qrChecks,
                 qrExpiredReported, currentQRToken>>
  /\ UNCHANGED notQR

\* waitForLogin(token, userCode, log) / pollForAuthorization() with their
\* defaults, after the QR code was obtained: the first status check is sent
QRStart ==
  /\ qrState = "idle"
  /\ qrState' = "polling"
  /\ qrParams' = defaultParams(qrImpl, qrNow)
  /\ currentQRToken' = TRUE
  /\ qrInFlight' = 1
  /\ qrChecks' = 1
  /\ qrTimer' = IF qrImpl = "LoginControl" THEN NoTimer
                ELSE [armed |-> TRUE, fireAt |-> qrNow + qrParams'.intervalMs]
  /\ UNCHANGED <<qrImpl, qrNow, qrTicks, qrOutcome, qrExpiredReported>>
  /\ UNCHANGED notQR

\* LoginControl: the sleep between two checks is over, the loop tests the
\* deadline.  TuyaLinkingAuth: the interval callback runs poll()
QRTimerFire ==
  /\ qrTimer.armed
  /\ qrNow >= qrTimer.fireAt
  /\ IF qrImpl = "LoginControl"
     THEN /\ qrTimer' = NoTimer
          /\ IF qrNow < qrParams.startTime + qrParams.timeoutMs
             THEN /\ qrInFlight' = qrInFlight + 1
                  /\ qrChecks' = qrChecks + 1
                  /\ UNCHANGED <<qrState, qrOutcome>>
             ELSE /\ qrState' = "done"
                  /\ qrOutcome' = settle("timeout")
                  /\ UNCHANGED <<qrInFlight, qrChecks>>
     ELSE /\ qrInFlight < MaxInFlight
          /\ qrTimer' = [armed |-> TRUE, fireAt |-> qrNow + qrParams.intervalMs]
          /\ qrInFlight' = qrInFlight + 1
          /\ qrChecks' = qrChecks + 1
          /\ UNCHANGED <<qrState, qrOutcome>>
  /\ UNCHANGED <<qrImpl, qrNow, qrTicks, qrParams, qrExpiredReported, currentQRToken>>
  /\ UNCHANGED notQR

\* the provider answers a status check
QRRespond(reply) ==
  /\ qrInFlight > 0
  /\ qrInFlight' = qrInFlight - 1
  /\ qrExpiredReported' = (qrExpiredReported \/ reply = "expired")
  /\ IF qrImpl = "LoginControl"
     THEN IF checkLoginResult(reply) = "result"
          THEN /\ qrState' = "done"
               /\ qrOutcome' = settle("success")
               /\ UNCHANGED <<qrTimer, currentQRToken>>
          ELSE /\ qrTimer' = [armed |-> TRUE, fireAt |-> qrNow + qrParams.intervalMs]
               /\ UNCHANGED <<qrState, qrOutcome, currentQRToken>>
     ELSE LET st == checkAuthStatus(reply)
          IN CASE st = "authorized" ->
                    /\ currentQRToken' = FALSE
                    /\ qrTimer' = NoTimer
                    /\ qrState' = "done"
                    /\ qrOutcome' = settle("success")
               [] st = "expired" ->
                    /\ currentQRToken' = FALSE
                    /\ qrTimer' = NoTimer
                    /\ qrState' = "done"
                    /\ qrOutcome' = settle("expired")
               [] st = "throw" ->
                    /\ qrTimer' = NoTimer
                    /\ qrState' = "done"
                    /\ qrOutcome' = settle("error")
                    /\ UNCHANGED currentQRToken
               [] OTHER ->
                    IF qrNow - qrParams.startTime > qrParams.timeoutMs
                    THEN /\ qrTimer' = NoTimer
                         /\ qrState' = "done"
                         /\ qrOutcome' = settle("timeout")
                         /\ UNCHANGED currentQRToken
                    ELSE UNCHANGED <<qrTimer, qrState, qrOutcome, currentQRToken>>
  /\ UNCHANGED <<qrImpl, qrNow, qrTicks, qrParams, qrChecks>>
  /\ UNCHANGED notQR

NextQR ==
  \/ \E d \in QRSteps : QRTick(d)
  \/ QRStart
  \/ QRTimerFire
  \/ \E reply \in QRReplies : QRRespond(reply)

SpecQR == InitQR /\ [][NextQR]_vars

\* every status check that was sent is answered or fails
LiveQR == SpecQR /\ WF_vars(\E reply \in QRReplies : QRRespond(reply))

\* ------------------------------------------- loading stored credentials
LoadImpls == {"TokenStorage", "TuyaWebApi"}
\* the members a JSON object in the file may have; user_code stands for a
\* user_code equal to the configured one
FileFields == {"accessToken", "refreshToken", "expiresAt", "user_code", "token_info"}
TokenFiles ==
  {[kind |-> k, fields |-> {}] : k \in {"missing", "unreadable", "garbage", "null"}}
    \cup {[kind |-> "object", fields |-> F] : F \in SUBSET FileFields}

\* TokenStorage.loadTokens: readFile or JSON.parse throw, or a member of
\* null is read, inside the try; an object is returned when it has the
\* three fields
TokenStorage_loadTokens(file) ==
  IF file.kind # "object" THEN "null"
  ELSE IF {"accessToken", "refreshToken", "expiresAt"} \subseteq file.fields THEN "tokens"
  ELSE "null"

\* TuyaWebApi.loadTokens: existsSync, readFileSync and JSON.parse inside the
\* try; what JSON.parse returns is returned as it is
TuyaWebApi_loadTokens(file) ==
  CASE file.kind \in {"missing", "unreadable", "garbage"} -> "null"
    [] file.kind = "null" -> "null"
    [] OTHER -> "data"

InitLoad ==
  /\ timerIdle
  /\ linkIdle
  /\ rateIdle
  /\ discIdle
  /\ cacheIdle
  /\ encIdle
  /\ credIdle
  /\ pollIdle
  /\ authIdle
  /\ qrIdle
  /\ loadImpl \in LoadImpls
  /\ tokenFile \in TokenFiles
  /\ hasConfigTokens \in BOOLEAN
  /\ loadResult = NotLoaded
  /\ pureIdle
  /\ devIdle

\* TuyaWebPlatform.loadAndRestoreTokens, then discoverDevices runs
LoadPlatform ==
  /\ loadImpl = "TokenStorage"
  /\ ~loadResult.done
  /\ LET stored == TokenStorage_loadTokens(tokenFile)
     IN loadResult' = [done |-> TRUE,
                       stored |-> IF stored = "tokens" THEN "tokens" ELSE "none",
                       raised |-> FALSE,
                       next |-> IF stored = "tokens" THEN "stored"
                                ELSE IF hasConfigTokens THEN "config" ELSE "linking"]
  /\ UNCHANGED <<loadImpl, tokenFile, hasConfigTokens>>
  /\ UNCHANGED notLoad

\* TuyaWebApi.getOrRefreshToken up to the choice between the saved tokens and
\* the QR login
LoadSharing ==
  /\ loadImpl = "TuyaWebApi"
  /\ ~loadResult.done
  /\ LET saved == TuyaWebApi_loadTokens(tokenFile)
         use == saved = "data" /\ "user_code" \in tokenFile.fields
     IN loadResult' = [done |-> TRUE,
                       stored |-> IF use THEN "saved" ELSE "none",
                       raised |-> FALSE,
                       next |-> IF use THEN "saved" ELSE "linking"]
  /\ UNCHANGED <<loadImpl, tokenFile, hasConfigTokens>>
  /\ UNCHANGED notLoad

NextLoad ==
  \/ LoadPlatform
  \/ LoadSharing

SpecLoad == InitLoad /\ [][NextLoad]_vars

\* --------------------------------------------------- DeviceCodeMapping
Codes == {"switch_led", "switch_1", "switch", "bright_value_v2", "bright_value",
          "colour_data_v2", "colour_data", "temp_value_v2", "temp_value", "work_mode",
          "fan_speed_percent", "speed", "control"}
Unset == "undefined"

\* the status arrays of a device, as the list of their codes
CodeLists == UNION {[1..k -> Codes] : k \in 0..MaxStatusLen}

includes(codes, c) == \E i \in 1..Len(codes) : codes[i] = c

\* a resolver that looks for the older code first
buildCodeMapping_V1First(codes) ==
  [switchCode |-> IF includes(codes, "switch_led") THEN "switch_led"
                  ELSE IF includes(codes, "switch_1") THEN "switch_1" ELSE "switch",
   brightnessCode |-> IF includes(codes, "bright_value") THEN "bright_value"
                      ELSE IF includes(codes, "bright_value_v2") THEN "bright_value_v2"
                      ELSE Unset,
   colourCode |-> IF includes(codes, "colour_data_v2") THEN "colour_data_v2"
                  ELSE IF includes(codes, "colour_data") THEN "colour_data" ELSE Unset,
   tempValueCode |-> IF includes(codes, "temp_value_v2") THEN "temp_value_v2"
                     ELSE IF includes(codes, "temp_value") THEN "temp_value" ELSE Unset,
   workModeCode |-> IF includes(codes, "work_mode") THEN "work_mode" ELSE Unset,
   fanSpeedCode |-> IF includes(codes, "fan_speed_percent") THEN "fan_speed_percent"
                    ELSE IF includes(codes, "speed") THEN "speed" ELSE Unset,
   controlCode |-> IF includes(codes, "control") THEN "control" ELSE Unset]

\* TuyaWebApi.buildCodeMapping on status.map(s => s.code)
buildCodeMapping(codes) ==
  [switchCode |-> IF includes(codes, "switch_led") THEN "switch_led"
                  ELSE IF includes(codes, "switch_1") THEN "switch_1"
                  ELSE IF includes(codes, "switch") THEN "switch" ELSE "switch",
   brightnessCode |-> IF includes(codes, "bright_value_v2") THEN "bright_value_v2"
                      ELSE IF includes(codes, "bright_value") THEN "bright_value"
                      ELSE Unset,
   colourCode |-> IF includes(codes, "colour_data_v2") THEN "colour_data_v2"
                  ELSE IF includes(codes, "colour_data") THEN "colour_data" ELSE Unset,
   tempValueCode |-> IF includes(codes, "temp_value_v2") THEN "temp_value_v2"
                     ELSE IF includes(codes, "temp_value") THEN "temp_value" ELSE Unset,
   workModeCode |-> IF includes(codes, "work_mode") THEN "work_mode" ELSE Unset,
   fanSpeedCode |-> IF includes(codes, "fan_speed_percent") THEN "fan_speed_percent"
                    ELSE IF includes(codes, "speed") THEN "speed" ELSE Unset,
   controlCode |-> IF includes(codes, "control") THEN "control" ELSE Unset]

InitResolve ==
  /\ timerIdle
  /\ linkIdle
  /\ rateIdle
  /\ discIdle
  /\ cacheIdle
  /\ encIdle
  /\ credIdle
  /\ pollIdle
  /\ authIdle
  /\ qrIdle
  /\ loadIdle
  /\ arg \in [codes : CodeLists]
  /\ result = NoResult
  /\ devIdle

ApplyResolve ==
  /\ ~result.done
  /\ result' = Returned(buildCodeMapping(arg.codes))
  /\ UNCHANGED arg
  /\ UNCHANGED notPure

NextResolve == ApplyResolve

SpecResolve == InitResolve /\ [][NextResolve]_vars

\* ------------------------------------------------------ deviceCodeMap
\* the status arrays the cloud reports in this part of the model
DevCodes == {"bright_value", "bright_value_v2"}
DevCodeLists == UNION {[1..k -> DevCodes] : k \in 0..MaxStatusLen}

Mapped(m) == [has |-> TRUE, mapping |-> m]

\* a getDeviceState that rebuilds the mapping on every call
getDeviceState_Rebuild(map, id, codes) ==
  IF Len(codes) > 0 THEN [map EXCEPT ![id] = Mapped(buildCodeMapping(codes))] ELSE map

\* the cache after getDeviceState(id) has read the status `codes`
getDeviceState(map, id, codes) ==
  IF ~map[id].has /\ Len(codes) > 0
  THEN [map EXCEPT ![id] = Mapped(buildCodeMapping(codes))]
  ELSE map

InitDevices ==
  /\ timerIdle
  /\ linkIdle
  /\ rateIdle
  /\ discIdle
  /\ cacheIdle
  /\ encIdle
  /\ credIdle
  /\ pollIdle
  /\ authIdle
  /\ qrIdle
  /\ loadIdle
  /\ pureIdle
  /\ devIdle

\* the body of discoverDevices' loop for one device of a home's answer
DiscoverDevice(id, codes) ==
  /\ customerApi
  /\ deviceCodeMap' = [deviceCodeMap EXCEPT ![id] = Mapped(buildCodeMapping(codes))]
  /\ discovered' = [discovered EXCEPT ![id] = [seen |-> TRUE, codes |-> codes]]
  /\ lastCall' = [op |-> "discoverDevices", id |-> id, empty |-> Len(codes) = 0]
  /\ UNCHANGED <<authSide, notDev>>

\* getDeviceState(id) once the detail request has answered
GetDeviceState(id, ok, codes) ==
  /\ customerApi
  /\ deviceCodeMap' = IF ok THEN getDeviceState(deviceCodeMap, id, codes) ELSE deviceCodeMap
  /\ lastCall' = [op |-> IF ok THEN "getDeviceState" ELSE "getDeviceState failed",
                  id |-> id, empty |-> Len(codes) = 0]
  /\ UNCHANGED <<discovered, authSide, notDev>>

NextDevices ==
  \/ AuthLogin
  \/ \E id \in DeviceIds, codes \in DevCodeLists : DiscoverDevice(id, codes)
  \/ \E id \in DeviceIds, ok \in BOOLEAN, codes \in DevCodeLists : GetDeviceState(id, ok, codes)

SpecDevices == InitDevices /\ [][NextDevices]_vars

\* ------------------------------------------------- intents to commands
CmdImpls == {"translateMethodToCommands", "convertMethodToCommands", "TuyaDeviceAPI"}
ColourMethods == {"colorSet", "colorTemperatureSet"}
CmdCodes == {"work_mode", "colour_data", "colour_data_v2", "temp_value", "temp_value_v2"}
CmdCodeLists == UNION {[1..k -> CmdCodes] : k \in 0..MaxStatusLen}

Cmd(code, value) == [code |-> code, value |-> value]

\* index.ts: meta is this.deviceCodeMap.get(deviceId)
translateMethodToCommands(meta, method) ==
  LET workMode == IF meta.has /\ meta.mapping.workModeCode # Unset
                  THEN <<Cmd(meta.mapping.workModeCode,
                             IF method = "colorSet" THEN "colour" ELSE "white")>>
                  ELSE <<>>
      valueCode == IF method = "colorSet"
                   THEN IF meta.has /\ meta.mapping.colourCode # Unset
                        THEN meta.mapping.colourCode ELSE "colour_data_v2"
                   ELSE IF meta.has /\ meta.mapping.tempValueCode # Unset
                        THEN meta.mapping.tempValueCode ELSE "temp_value_v2"
  IN workMode \o <<Cmd(valueCode, "value")>>

\* TuyaWebApi.ts: hasV2 is read from the cached state of the device
convertMethodToCommands(hasV2, method) ==
  IF method = "colorTemperatureSet"
  THEN <<Cmd(IF hasV2 THEN "temp_value_v2" ELSE "temp_value", "value")>>
  ELSE <<Cmd(IF hasV2 THEN "colour_data_v2" ELSE "colour_data", "value"),
         Cmd("work_mode", "colour")>>

\* TuyaDeviceAPI.setColorTemperature / setColor on the status just read;
\* no command is sent when the device has neither code
deviceApiCommands(codes, method) ==
  LET v2 == IF method = "colorSet" THEN "colour_data_v2" ELSE "temp_value_v2"
      v1 == IF method = "colorSet" THEN "colour_data" ELSE "temp_value"
  IN IF includes(codes, v2) THEN <<Cmd(v2, "value")>>
     ELSE IF includes(codes, v1) THEN <<Cmd(v1, "value")>>
     ELSE <<>>

InitCommands ==
  /\ timerIdle
  /\ linkIdle
  /\ rateIdle
  /\ discIdle
  /\ cacheIdle
  /\ encIdle
  /\ credIdle
  /\ pollIdle
  /\ authIdle
  /\ qrIdle
  /\ loadIdle
  /\ devIdle
  /\ arg \in [impl : CmdImpls, method : ColourMethods, discovered : BOOLEAN,
               hasV2 : BOOLEAN, codes : CmdCodeLists]
  /\ result = NoResult

ApplyCommands ==
  /\ ~result.done
  /\ result' = Returned(
       CASE arg.impl = "translateMethodToCommands" ->
              translateMethodToCommands(
                IF arg.discovered THEN Mapped(buildCodeMapping(arg.codes)) ELSE NoMapping,
                arg.method)
         [] arg.impl = "convertMethodToCommands" ->
              convertMethodToCommands(arg.hasV2, arg.method)
         [] OTHER -> deviceApiCommands(arg.codes, arg.method))
  /\ UNCHANGED arg
  /\ UNCHANGED notPure

NextCommands == ApplyCommands

SpecCommands == InitCommands /\ [][NextCommands]_vars

\* ---------------------------------------------------- status to state
\* Math.round(n / d) for n >= 0 and d > 0
Round(n, d) == (2 * n + d) \div (2 * d)

StateImpls == {"translateStatusToDeviceState", "getBrightness"}
V1Code == [brightness |-> "bright_value", color |-> "colour_data",
           color_temp |-> "temp_value", speed |-> "speed"]
V2Code == [brightness |-> "bright_value_v2", color |-> "colour_data_v2",
           color_temp |-> "temp_value_v2", speed |-> "fan_speed_percent"]
Properties == DOMAIN V1Code
RawValues == {50, 250}
StatusItems == [code : {V1Code[p] : p \in Properties} \cup {V2Code[p] : p \in Properties},
                value : RawValues]
StatusArrays == UNION {[1..k -> StatusItems] : k \in 0..MaxStatusLen}

Undefined == [defined |-> FALSE]
Defined(v) == [defined |-> TRUE, v |-> v]

\* one turn of the loop: the case of the switch that the code of the entry selects;
\* a colour value n stands for the object {h: n, s: n, v: n}
translateItem(state, item) ==
  CASE item.code \in {"bright_value", "bright_value_v2"} ->
         [state EXCEPT !.brightness = Defined(item.value)]
    [] item.code \in {"colour_data", "colour_data_v2"} ->
         [state EXCEPT !.color = Defined([hue |-> item.value,
                                          saturation |-> Round(item.value, 10),
                                          brightness |-> item.value])]
    [] item.code \in {"temp_value", "temp_value_v2"} ->
         [state EXCEPT !.color_temp = Defined(item.value)]
    [] item.code \in {"fan_speed_percent", "speed"} ->
         [state EXCEPT !.speed = Defined(item.value)]
    [] OTHER -> state

RECURSIVE translateStatusToDeviceState(_, _)
\* the state after the first n entries of the array
translateStatusToDeviceState(status, n) ==
  IF n = 0
  THEN [brightness |-> Undefined, color |-> Undefined, color_temp |-> Undefined,
        speed |-> Undefined]
  ELSE translateItem(translateStatusToDeviceState(status, n - 1), status[n])

\* this.device.status?.find(s => s.code === code)
getStatusValue(status, code) ==
  IF \E i \in 1..Len(status) : status[i].code = code
  THEN Defined(status[CHOOSE i \in 1..Len(status) :
                        /\ status[i].code = code
                        /\ \A j \in 1..(i - 1) : status[j].code # code].value)
  ELSE Undefined

getBrightness(status) ==
  LET v2 == getStatusValue(status, "bright_value_v2")
      v1 == getStatusValue(status, "bright_value")
  IN IF v2.defined THEN Round(v2.v, 10)
     ELSE IF v1.defined THEN Round(v1.v * 100, 255)
     ELSE 100

InitState ==
  /\ timerIdle
  /\ linkIdle
  /\ rateIdle
  /\ discIdle
  /\ cacheIdle
  /\ encIdle
  /\ credIdle
  /\ pollIdle
  /\ authIdle
  /\ qrIdle
  /\ loadIdle
  /\ devIdle
  /\ arg \in [impl : StateImpls, status : StatusArrays]
  /\ result = NoResult

ApplyState ==
  /\ ~result.done
  /\ result' = Returned(
       IF arg.impl = "getBrightness"
       THEN [brightness |-> Defined(getBrightness(arg.status))]
       ELSE translateStatusToDeviceState(arg.status, Len(arg.status)))
  /\ UNCHANGED arg
  /\ UNCHANGED notPure

NextState == ApplyState

SpecState == InitState /\ [][NextState]_vars

\* ------------------------------------------------ brightness to HomeKit
BrightnessImpls == {"updateValue", "updateValue (part_003)", "getBrightness"}
RawBrightness == {0, 5, 10, 100, 255, 1000}
BrightnessLimits == {0, 10, 100}
BrightnessConfigs == {Undefined} \cup {Defined([min |-> a, max |-> b]) :
                                        a \in BrightnessLimits, b \in BrightnessLimits}

NotHanded == [handed |-> FALSE]
Handed(v, warned) == [handed |-> TRUE, value |-> v, warned |-> warned]

\* BrightnessCharacteristic.rangeMapper: the provider range mapped onto 0..100
rangeMapper(config, usesColorBrightness) ==
  IF config.defined THEN config.v
  ELSE IF usesColorBrightness THEN [min |-> 1, max |-> 255]
  ELSE [min |-> 10, max |-> 100]

\* MapRange.tuyaToHomekit, the linear map of [min, max] onto [0, 100], as the
\* fraction num / den with den > 0
tuyaToHomekit(range, x) ==
  IF range.max > range.min
  THEN [num |-> (x - range.min) * 100, den |-> range.max - range.min]
  ELSE [num |-> (range.min - x) * 100, den |-> range.min - range.max]

\* BrightnessCharacteristic.updateValue; raw is the field of the state it reads
updateValue(config, usesColorBrightness, raw) ==
  LET range == rangeMapper(config, usesColorBrightness)
      q == tuyaToHomekit(range, raw.v)
  IN IF ~raw.defined \/ range.min = range.max THEN NotHanded
     ELSE IF q.num > 100 * q.den THEN Handed(100, TRUE)
     ELSE IF q.num < 0 THEN Handed(0, TRUE)
     ELSE Handed(Round(q.num, q.den), FALSE)

\* the older BrightnessCharacteristic.updateValue
updateValue_part003(colorMode, raw) ==
  LET stateValue == IF ~raw.defined THEN 0
                    ELSE IF colorMode THEN raw.v
                    ELSE Round(raw.v * 100, 255)
  IN IF stateValue # 0 THEN Handed(stateValue, FALSE) ELSE NotHanded

InitBrightness ==
  /\ timerIdle
  /\ linkIdle
  /\ rateIdle
  /\ discIdle
  /\ cacheIdle
  /\ encIdle
  /\ credIdle
  /\ pollIdle
  /\ authIdle
  /\ qrIdle
  /\ loadIdle
  /\ devIdle
  /\ arg \in [impl : BrightnessImpls, config : BrightnessConfigs, colorMode : BOOLEAN,
               raw : {Undefined} \cup {Defined(v) : v \in RawBrightness}]
  /\ result = NoResult

ApplyBrightness ==
  /\ ~result.done
  /\ result' = Returned(
       CASE arg.impl = "updateValue" -> updateValue(arg.config, arg.colorMode, arg.raw)
         [] arg.impl = "updateValue (part_003)" -> updateValue_part003(arg.colorMode, arg.raw)
         [] OTHER -> Handed(getBrightness(IF arg.raw.defined
                                          THEN <<[code |-> "bright_value_v2", value |-> arg.raw.v]>>
                                          ELSE <<>>), FALSE))
  /\ UNCHANGED arg
  /\ UNCHANGED notPure

NextBrightness == ApplyBrightness

SpecBrightness == InitBrightness /\ [][NextBrightness]_vars

\* ------------------------------------------- colour temperature to HomeKit
HOMEKIT_MIN_MIRED == 140
HOMEKIT_MAX_MIRED == 500
DEFAULT_MIN_KELVIN == 2700
DEFAULT_MAX_KELVIN == 6500

ColorTempImpls == {"updateValue (Kelvin)", "updateValue (v2)", "getColorTemperature v2",
                   "getColorTemperature v1"}
\* 0 stands for a limit that is not configured
MinKelvinConfigs == {0, 1667, 2700}
MaxKelvinConfigs == {0, 6500, 10000}
RawColorTemps == {0, 255, 1000, 2000, 2700, 6500}

Clamp(lo, hi, x) == IF x < lo THEN lo ELSE IF x > hi THEN hi ELSE x

\* MapRange.tuya(ts, te).homeKit(hs, he).tuyaToHomekit(x): the linear map that
\* takes ts to hs and te to he, as the fraction num / den with den > 0
mapRange(ts, te, hs, he, x) ==
  IF te > ts
  THEN [num |-> hs * (te - ts) + (x - ts) * (he - hs), den |-> te - ts]
  ELSE [num |-> hs * (ts - te) + (ts - x) * (he - hs), den |-> ts - te]

\* ColorTemperatureCharacteristic.updateValue of the variant that reads Kelvin
updateValueKelvin(minCfg, maxCfg, raw) ==
  LET minKelvin == IF minCfg # 0 THEN minCfg ELSE DEFAULT_MIN_KELVIN
      maxKelvin == IF maxCfg # 0 THEN maxCfg ELSE DEFAULT_MAX_KELVIN
      minHomekit == Clamp(HOMEKIT_MIN_MIRED, HOMEKIT_MAX_MIRED, Round(1000000, maxKelvin))
      maxHomekit == Clamp(HOMEKIT_MIN_MIRED, HOMEKIT_MAX_MIRED, Round(1000000, minKelvin))
      q == mapRange(maxKelvin, minKelvin, minHomekit, maxHomekit, raw)
      mired == Round(q.num, q.den)
  IN IF mired > maxHomekit THEN Handed(Clamp(140, 500, maxHomekit), TRUE)
     ELSE IF mired < minHomekit THEN Handed(Clamp(140, 500, minHomekit), TRUE)
     ELSE Handed(Clamp(140, 500, mired), FALSE)

\* ColorTemperatureCharacteristic.updateValue of the variant that reads 0..1000
updateValueV2(minCfg, maxCfg, raw) ==
  LET minMired == IF maxCfg # 0 THEN Round(1000000, maxCfg) ELSE 140
      maxMired == IF minCfg # 0 THEN Round(1000000, minCfg) ELSE 500
      q == mapRange(0, 1000, maxMired, minMired, raw)
      mired == Round(q.num, q.den)
  IN Handed(mired, mired > maxMired \/ mired < minMired)

\* TuyaAccessory.getColorTemperature: kelvin = 2700 + (raw / scale) * (6500 - 2700),
\* mired = Math.round(1000000 / kelvin)
getColorTemperature(scale, raw) ==
  Round(10000 * scale, 27 * scale + 38 * raw)

InitColorTemp ==
  /\ timerIdle
  /\ linkIdle
  /\ rateIdle
  /\ discIdle
  /\ cacheIdle
  /\ encIdle
  /\ credIdle
  /\ pollIdle
  /\ authIdle
  /\ qrIdle
  /\ loadIdle
  /\ devIdle
  /\ arg \in [impl : ColorTempImpls, minKelvin : MinKelvinConfigs,
               maxKelvin : MaxKelvinConfigs, raw : RawColorTemps]
  /\ result = NoResult

ApplyColorTemp ==
  /\ ~result.done
  /\ result' = Returned(
       CASE arg.impl = "updateValue (Kelvin)" ->
              updateValueKelvin(arg.minKelvin, arg.maxKelvin, arg.raw)
         [] arg.impl = "updateValue (v2)" ->
              updateValueV2(arg.minKelvin, arg.maxKelvin, arg.raw)
         [] arg.impl = "getColorTemperature v2" ->
              Handed(getColorTemperature(1000, arg.raw), FALSE)
         [] OTHER -> Handed(getColorTemperature(255, arg.raw), FALSE))
  /\ UNCHANGED arg
  /\ UNCHANGED notPure

NextColorTemp == ApplyColorTemp

SpecColorTemp == InitColorTemp /\ [][NextColorTemp]_vars

\* --------------------------------------------------------- setDeviceState
TuyaApiMethods == {"turnOnOff", "brightnessSet", "colorSet", "colorTemperatureSet",
                   "windSpeedSet", "modeSet", "temperatureSet", "startStop", "unknown"}
DevTypes == {"light", "cover"}
SetCodes == CmdCodes \cup {"switch_1", "control"}
SetCodeLists == UNION {[1..k -> SetCodes] : k \in 0..MaxStatusLen}

\* an entry of deviceCodeMap with the devType kept in the mapping
MappedAs(m, devType) == [has |-> TRUE, mapping |-> m, devType |-> devType]

\* the whole switch of translateMethodToCommands; the two colour cases are
\* the operator above
translateMethod(meta, method) ==
  CASE method = "turnOnOff" ->
         IF meta.has /\ meta.mapping.controlCode # Unset /\ meta.devType = "cover"
         THEN <<Cmd(meta.mapping.controlCode, "open")>>
         ELSE <<Cmd(IF meta.has THEN meta.mapping.switchCode ELSE "switch", "on")>>
    [] method = "brightnessSet" ->
         <<Cmd(IF meta.has /\ meta.mapping.brightnessCode # Unset
               THEN meta.mapping.brightnessCode ELSE "bright_value_v2", "value")>>
    [] method \in ColourMethods -> translateMethodToCommands(meta, method)
    [] method = "windSpeedSet" ->
         <<Cmd(IF meta.has /\ meta.mapping.fanSpeedCode # Unset
               THEN meta.mapping.fanSpeedCode ELSE "fan_speed_percent", "value")>>
    [] method = "modeSet" -> <<Cmd("mode", "value")>>
    [] method = "temperatureSet" -> <<Cmd("temp_set", "value")>>
    [] method = "startStop" ->
         <<Cmd(IF meta.has /\ meta.mapping.controlCode # Unset
               THEN meta.mapping.controlCode ELSE "control", "stop")>>
    [] OTHER -> <<>>

\* the messages of the errors that customerApi.post throws, as lists of characters
\* (a provider code) or of one word (a provider error name)
ErrorMessages == {<<"2", "0", "0", "9">>, <<"1", "1", "0", "0">>, <<"1", "1", "0", "1">>,
                  <<"2", "0", "1", "3">>, <<"1", "0", "1", "0">>,
                  <<"2", "8", "8", "4", "1", "1", "0", "1">>,
                  <<"FrequentlyInvoke">>, <<"timeout">>}

\* msg.includes(pat)
msgIncludes(msg, pat) ==
  \E i \in 0..(Len(msg) - Len(pat)) : \A k \in 1..Len(pat) : msg[i + k] = pat[k]

\* the catch block of setDeviceState
setDeviceStateCatch(msg) ==
  IF msgIncludes(msg, <<"2", "0", "0", "9">>) \/ msgIncludes(msg, <<"UnsupportedOperation">>)
  THEN "UnsupportedOperationError"
  ELSE IF \/ msgIncludes(msg, <<"1", "1", "0", "0">>)
          \/ msgIncludes(msg, <<"1", "1", "0", "1">>)
          \/ msgIncludes(msg, <<"FrequentlyInvoke">>)
  THEN "RateLimitError"
  ELSE IF msgIncludes(msg, <<"2", "0", "1", "3">>) \/ msgIncludes(msg, <<"TargetOffline">>)
  THEN "DeviceOfflineError"
  ELSE "rethrown"

InitSetState ==
  /\ timerIdle
  /\ linkIdle
  /\ rateIdle
  /\ discIdle
  /\ cacheIdle
  /\ encIdle
  /\ credIdle
  /\ pollIdle
  /\ qrIdle
  /\ loadIdle
  /\ pureIdle
  /\ customerApi \in BOOLEAN
  /\ authCalls = <<>>
  /\ \E codes \in SetCodeLists, t \in DevTypes :
       deviceCodeMap = [id \in DeviceIds |->
                          IF id = 1 THEN MappedAs(buildCodeMapping(codes), t) ELSE NoMapping]
  /\ discovered = [id \in DeviceIds |-> NotReported]
  /\ lastCall = NoCall

\* one call of setDeviceState, up to the answer of the post
SetDeviceState(id, method, ok, msg) ==
  /\ lastCall' =
       IF ~customerApi
       THEN [op |-> "setDeviceState", id |-> id, method |-> method, commands |-> <<>>,
             sent |-> FALSE, failed |-> FALSE, msg |-> <<>>, raised |-> "AuthenticationError"]
       ELSE [op |-> "setDeviceState", id |-> id, method |-> method,
             commands |-> translateMethod(deviceCodeMap[id], method),
             sent |-> TRUE, failed |-> ~ok, msg |-> IF ok THEN <<>> ELSE msg,
             raised |-> IF ok THEN "none" ELSE setDeviceStateCatch(msg)]
  /\ UNCHANGED <<deviceCodeMap, discovered, authSide, notDev>>

NextSetState ==
  \E id \in DeviceIds, method \in TuyaApiMethods, ok \in BOOLEAN, msg \in ErrorMessages :
    SetDeviceState(id, method, ok, msg)

SpecSetState == InitSetState /\ [][NextSetState]_vars

\* ------------------------------------------------- TuyaMobileAPI.request
EncTokenChoices == {Tok(1, r, EXTENSION) : r \in {1, 2}}
Replies == {"result", "tag mismatch", "malformed", "not success", "network error"}

\* generateSecret(rid, '', md5(rid + refreshToken)): a key that belongs to
\* this rid and this refresh token
generateSecret(rid, refreshToken) == [rid |-> rid, refreshToken |-> refreshToken]

\* the secret decryptAesGcm is called with: the const of this call of request()
decryptSecret_Shared(reqs, i) == reqs[Len(reqs)].secret

decryptSecret(reqs, i) == reqs[i].secret

\* decryptAesGcm: the plaintext comes out when the envelope is whole and was
\* sealed with this secret; otherwise setAuthTag or final() throws
decryptAesGcm(envelope, secret) == envelope.whole /\ envelope.secret = secret

\* what request() does with an exception of its try block when nothing catches it
requestCatch_Rethrow(reply) == "thrown"

\* the catch of request(): every exception becomes { success: false }
requestCatch(reply) == "failure"

InitEnc ==
  /\ timerIdle
  /\ linkIdle
  /\ rateIdle
  /\ discIdle
  /\ cacheIdle
  /\ credIdle
  /\ pollIdle
  /\ authIdle
  /\ qrIdle
  /\ loadIdle
  /\ pureIdle
  /\ devIdle
  /\ encIdle

\* request() up to the await of this.client.request
EncSend ==
  /\ Len(requests) < MaxRequests
  /\ HasRefreshToken(mobileTokens)
  /\ hasValidTokens(mobileTokens, now)
  /\ LET rid == Len(requests) + 1
     IN requests' = Append(requests,
          [rid |-> rid, secret |-> generateSecret(rid, mobileTokens.refreshToken),
           refreshToken |-> mobileTokens.refreshToken, state |-> "sent",
           reply |-> "none", outcome |-> "none", usedSecret |-> generateSecret(0, 0)])
  /\ UNCHANGED <<credSide, notEnc>>

\* request() from the answer to call i on; the provider seals a result with
\* the secret of the request it answers
EncRespond(i, reply) ==
  /\ requests[i].state = "sent"
  /\ LET r == requests[i]
         envelope == [whole |-> reply = "result", secret |-> r.secret]
         secret == decryptSecret(requests, i)
         outcome ==
           CASE reply = "not success" -> "failure"
             [] reply = "network error" -> requestCatch(reply)
             [] OTHER -> IF decryptAesGcm(envelope, secret) THEN "success"
                         ELSE requestCatch(reply)
     IN requests' = [requests EXCEPT ![i] =
          [r EXCEPT !.state = "done", !.reply = reply, !.outcome = outcome,
                    !.usedSecret = IF reply \in {"result", "tag mismatch", "malformed"}
                                   THEN secret ELSE r.usedSecret]]
  /\ UNCHANGED <<credSide, notEnc>>

NextEnc ==
  \/ \E t \in EncTokenChoices : AuthSetTokens(t)
  \/ EncSend
  \/ \E i \in 1..Len(requests), reply \in Replies : EncRespond(i, reply)

SpecEnc == InitEnc /\ [][NextEnc]_vars

\* ------------------------------------------- encryptAesGcm / decryptAesGcm
\* bytes are 0..255; the characters of base64 are 0..63, and 64 is '='
PlainBytes == {65, 66}
Plaintexts == UNION {[1..k -> PlainBytes] : k \in 0..MaxPlainLen}
Secrets == {1, 2}
Nonces == {[i \in 1..12 |-> c] : c \in {65, 97}}

RECURSIVE toBase64(_)
\* Buffer.toString('base64')
toBase64(bytes) ==
  IF Len(bytes) = 0 THEN <<>>
  ELSE IF Len(bytes) = 1
  THEN <<bytes[1] \div 4, (bytes[1] % 4) * 16, 64, 64>>
  ELSE IF Len(bytes) = 2
  THEN <<bytes[1] \div 4, (bytes[1] % 4) * 16 + bytes[2] \div 16, (bytes[2] % 16) * 4, 64>>
  ELSE <<bytes[1] \div 4, (bytes[1] % 4) * 16 + bytes[2] \div 16,
         (bytes[2] % 16) * 4 + bytes[3] \div 64, bytes[3] % 64>>
       \o toBase64(SubSeq(bytes, 4, Len(bytes)))

RECURSIVE fromBase64(_)
\* Buffer.from(text, 'base64') on a text of whole groups of four characters:
\* the bits of the last character that belong to no byte are dropped
fromBase64(chars) ==
  IF Len(chars) < 4 THEN <<>>
  ELSE IF chars[3] = 64 THEN <<chars[1] * 4 + chars[2] \div 16>>
  ELSE IF chars[4] = 64
  THEN <<chars[1] * 4 + chars[2] \div 16, (chars[2] % 16) * 16 + chars[3] \div 4>>
  ELSE <<chars[1] * 4 + chars[2] \div 16, (chars[2] % 16) * 16 + chars[3] \div 4,
         (chars[3] % 4) * 64 + chars[4]>>
       \o fromBase64(SubSeq(chars, 5, Len(chars)))

\* AES-128-GCM under the key `secret` and the nonce: the ciphertext has the
\* length of the plaintext, the tag has 16 bytes and depends on all three
aesGcm(plain, secret, nonce) ==
  [ciphertext |-> [i \in 1..Len(plain) |-> (plain[i] + secret + nonce[1]) % 256],
   tag |-> [i \in 1..16 |->
             IF i <= Len(plain) THEN (plain[i] + 2 * secret + i) % 256
             ELSE IF i = 16 THEN Len(plain)
             ELSE (secret + nonce[1] + i) % 256]]

encryptAesGcm(rawData, secret, nonce) ==
  LET sealed == aesGcm(rawData, secret, nonce)
  IN toBase64(nonce) \o toBase64(sealed.ciphertext \o sealed.tag)

DecryptFailed == [ok |-> FALSE]

\* decryptAesGcm: decipher.final() throws unless nonce, ciphertext and tag
\* are those of a plaintext sealed under this secret
decryptEnvelope(cipherData, secret) ==
  LET fullBuffer == fromBase64(cipherData)
  IN IF Len(fullBuffer) < 28 THEN DecryptFailed
     ELSE LET nonce == SubSeq(fullBuffer, 1, 12)
              tag == SubSeq(fullBuffer, Len(fullBuffer) - 15, Len(fullBuffer))
              ciphertext == SubSeq(fullBuffer, 13, Len(fullBuffer) - 16)
              genuine == {pl \in Plaintexts :
                            /\ nonce \in Nonces
                            /\ aesGcm(pl, secret, nonce).ciphertext = ciphertext
                            /\ aesGcm(pl, secret, nonce).tag = tag}
          IN IF genuine = {} THEN DecryptFailed
             ELSE [ok |-> TRUE, plaintext |-> CHOOSE pl \in genuine : TRUE]

\* the envelope with the character at position pos replaced (pos = 0: as it was)
Tampered(envelope, pos, char) ==
  IF pos = 0 THEN envelope ELSE [envelope EXCEPT ![pos] = char]

InitCrypt ==
  /\ timerIdle
  /\ linkIdle
  /\ rateIdle
  /\ discIdle
  /\ cacheIdle
  /\ encIdle
  /\ credIdle
  /\ pollIdle
  /\ authIdle
  /\ qrIdle
  /\ loadIdle
  /\ devIdle
  /\ \E pl \in Plaintexts, secret \in Secrets, nonce \in Nonces :
       LET envelope == encryptAesGcm(pl, secret, nonce)
       IN \E pos \in 0..Len(envelope), char \in 0..63 :
            /\ pos = 0 => char = 0
            /\ pos # 0 => (envelope[pos] # 64 /\ envelope[pos] # char)
            /\ arg = [plaintext |-> pl, secret |-> secret, nonce |-> nonce,
                      pos |-> pos, char |-> char]
  /\ result = NoResult

ApplyCrypt ==
  /\ ~result.done
  /\ result' = Returned(
       decryptEnvelope(
         Tampered(encryptAesGcm(arg.plaintext, arg.secret, arg.nonce), arg.pos, arg.char),
         arg.secret))
  /\ UNCHANGED arg
  /\ UNCHANGED notPure

NextCrypt == ApplyCrypt

SpecCrypt == InitCrypt /\ [][NextCrypt]_vars

\* ------------------------------------------- brightness, read and written
ReadPaths == {"updateValue", "getBrightness"}
WritePaths == {"translateMethodToCommands", "convertMethodToCommands", "setBrightness"}
BrightValues == {0, 10, 50, 100, 128, 550, 1000}
CachedBrightness == {Undefined, Defined(50), Defined(128), Defined(550)}
PathConfigs == {Undefined, Defined([min |-> 10, max |-> 1000])}

NoCmd == [code |-> "none", value |-> 0]

\* MapRange.homekitToTuya, the inverse of the linear map; exact for the
\* multiples of ten that the runs use
homekitToTuya(range, b) == range.min + (b * (range.max - range.min)) \div 100

\* BrightnessCharacteristic.setRemoteValue: the value of the brightnessSet payload
setRemoteValue(config, b) == homekitToTuya(rangeMapper(config, FALSE), b)

\* TuyaDeviceAPI.setBrightness on the status just read
setBrightness(codes, brightness) ==
  IF includes(codes, "bright_value_v2") THEN Cmd("bright_value_v2", brightness * 10)
  ELSE IF includes(codes, "bright_value")
  THEN Cmd("bright_value", Clamp(25, 255, Round(brightness * 255, 100)))
  ELSE NoCmd

\* the brightnessSet case of convertMethodToCommands; cached is
\* this.deviceCache.get(deviceId)?.data?.brightness
convertBrightnessSet(cached, value) ==
  IF cached.defined /\ cached.v > 100 THEN Cmd("bright_value_v2", value * 10)
  ELSE Cmd("bright_value", Clamp(25, 255, Round(value * 255, 100)))

InitBrightPaths ==
  /\ timerIdle
  /\ linkIdle
  /\ rateIdle
  /\ discIdle
  /\ cacheIdle
  /\ encIdle
  /\ credIdle
  /\ pollIdle
  /\ authIdle
  /\ qrIdle
  /\ loadIdle
  /\ devIdle
  /\ arg \in [path : ReadPaths \cup WritePaths, v2 : BOOLEAN, cached : CachedBrightness,
               config : PathConfigs, value : BrightValues]
  /\ arg.path \in WritePaths => arg.value <= 100
  /\ result = NoResult

\* one read or one write of the brightness of a device that reports
\* bright_value_v2 (v2) or bright_value alone
ApplyBrightPaths ==
  /\ ~result.done
  /\ LET code == IF arg.v2 THEN "bright_value_v2" ELSE "bright_value"
         status == <<[code |-> code, value |-> arg.value]>>
         state == translateStatusToDeviceState(status, 1)
         meta == Mapped(buildCodeMapping(<<code>>))
     IN result' = Returned(
          CASE arg.path = "updateValue" -> updateValue(arg.config, FALSE, state.brightness)
            [] arg.path = "getBrightness" -> Handed(getBrightness(status), FALSE)
            [] arg.path = "translateMethodToCommands" ->
                 Cmd(translateMethod(meta, "brightnessSet")[1].code,
                     setRemoteValue(arg.config, arg.value))
            [] arg.path = "convertMethodToCommands" ->
                 convertBrightnessSet(arg.cached, arg.value)
            [] OTHER -> setBrightness(<<code>>, arg.value))
  /\ UNCHANGED arg
  /\ UNCHANGED notPure

NextBrightPaths == ApplyBrightPaths

SpecBrightPaths == InitBrightPaths /\ [][NextBrightPaths]_vars

\* ---------------------------------------------- signing, the plain protocol
\* Texts are sequences of symbols.  A digest is the term of what was hashed:
\* two digests are equal exactly when their inputs are.
SignImpls == {"TuyaLinkingAuth", "TuyaOpenAPI"}
TUYA_CLIENT_ID == <<"HA_3y9q4ak7g4ephrvke">>
Methods == {<<"get">>, <<"GET">>, <<"post">>}
Paths == {<<"/v1.0/a">>, <<"/v1.0/b">>}
Bodies == {Undefined, Defined(<<"{", "}">>), Defined(<<"{", "x", "}">>)}
SignTokens == {Undefined, Defined(<<>>), Defined(<<"at1">>), Defined(<<"at2">>)}
Timestamps == {<<"1700000000000">>, <<"1700000000001">>}
UUIDs == {<<"uuid1">>, <<"uuid2">>}

toUpperCase(text) ==
  [i \in 1..Len(text) |->
     CASE text[i] = "get" -> "GET"
       [] text[i] = "post" -> "POST"
       [] OTHER -> text[i]]

\* crypto.createHash('sha256').update(text).digest('hex')
sha256Hex(text) == <<"sha256(">> \o text \o <<")">>

\* crypto.createHmac('sha256', key).update(text).digest('hex').toUpperCase()
hmacSha256HexUpper(key, text) == <<"HMAC(">> \o key \o <<",">> \o text \o <<")">>

\* [method, contentHash, '', path].join('\n')
stringToSign(method, bodyStr, path) ==
  method \o <<"\n">> \o sha256Hex(bodyStr) \o <<"\n">> \o <<"\n">> \o path

\* body ? JSON.stringify(body) : ''
bodyText(body) == IF body.defined THEN body.v ELSE <<>>

\* a text is truthy when it is defined and not empty
Truthy(text) == text.defined /\ text.v # <<>>

SignRefused == [refused |-> TRUE]
Signed(signStr, t, nonce, token) ==
  [refused |-> FALSE, signStr |-> signStr,
   headers |-> [client_id |-> TUYA_CLIENT_ID, t |-> t,
                sign |-> hmacSha256HexUpper(<<>>, signStr),
                sign_method |-> "HMAC-SHA256", nonce |-> nonce,
                access_token |-> token]]

linkingSignStr_NonceFirst(t, nonce, accessToken, toSign) ==
  TUYA_CLIENT_ID \o t \o nonce
    \o (IF Truthy(accessToken) THEN accessToken.v ELSE <<>>) \o toSign

\* TuyaLinkingAuth.signRequest: the text that is signed
linkingSignStr(t, nonce, accessToken, toSign) ==
  TUYA_CLIENT_ID \o t
    \o (IF Truthy(accessToken) THEN accessToken.v ELSE <<>>) \o nonce \o toSign

\* TuyaLinkingAuth.signRequest
linkingSignRequest(method, path, body, accessToken, t, nonce) ==
  Signed(linkingSignStr(t, nonce, accessToken,
                        stringToSign(toUpperCase(method), bodyText(body), path)),
         t, nonce, IF Truthy(accessToken) THEN accessToken ELSE Undefined)

\* TuyaOpenAPI.signRequest, with this.tokens.accessToken as accessToken
openSignRequest(method, path, body, accessToken, t, nonce) ==
  IF ~Truthy(accessToken) THEN SignRefused
  ELSE Signed(TUYA_CLIENT_ID \o t \o accessToken.v \o nonce
                \o stringToSign(toUpperCase(method), bodyText(body), path),
              t, nonce, accessToken)

InitSign ==
  /\ timerIdle
  /\ linkIdle
  /\ rateIdle
  /\ discIdle
  /\ cacheIdle
  /\ encIdle
  /\ credIdle
  /\ pollIdle
  /\ authIdle
  /\ qrIdle
  /\ loadIdle
  /\ devIdle
  /\ arg \in [impl : SignImpls, method : Methods, path : Paths, body : Bodies,
               accessToken : SignTokens, t : Timestamps, nonce : UUIDs]
  /\ result = NoResult

\* one request signed; t is Date.now().toString(), nonce is crypto.randomUUID()
ApplySign ==
  /\ ~result.done
  /\ result' = Returned(
       IF arg.impl = "TuyaLinkingAuth"
       THEN linkingSignRequest(arg.method, arg.path, arg.body, arg.accessToken, arg.t, arg.nonce)
       ELSE openSignRequest(arg.method, arg.path, arg.body, arg.accessToken, arg.t, arg.nonce))
  /\ UNCHANGED arg
  /\ UNCHANGED notPure

NextSign == ApplySign

SpecSign == InitSign /\ [][NextSign]_vars

\* ------------------------------------------- the client of a device operation
DeviceOps == {"getDeviceList", "getDeviceStatus", "sendCommands"}

selectClient_InSync(mobileApi, mobile, open) ==
  IF mobileApi /\ mobile.present /\ mobile = open THEN "encrypted" ELSE "signed"

\* this.mobileApi && this.mobileApi.getTokens(): the test that opens
\* getDeviceList, getDeviceStatus and sendCommands
selectClient(mobileApi, mobile, open) ==
  IF mobileApi /\ mobile.present THEN "encrypted" ELSE "signed"

\* what the operation does with the client it chose, up to its request
deviceOp(op, client, mobile, open) ==
  IF client = "encrypted" THEN mobileRequest(mobile)
  ELSE IF op = "getDeviceList" /\ ~(open.present /\ open.uid # 0)
  THEN Refused("No authenticated user. Please link your account first.")
  ELSE signRequest(open)

InitSelect ==
  /\ timerIdle
  /\ linkIdle
  /\ rateIdle
  /\ discIdle
  /\ cacheIdle
  /\ encIdle
  /\ credIdle
  /\ pollIdle
  /\ authIdle
  /\ qrIdle
  /\ loadIdle
  /\ pureIdle
  /\ devIdle

\* the signed client refreshes; the platform's callback, where it is set,
\* hands the new tokens to the encrypted client
SelectRefresh(t, wired) ==
  /\ openTokens.present
  /\ openTokens' = t
  /\ tokenRefreshTimer' = scheduleTokenRefresh(t, now)
  /\ mobileTokens' = IF wired THEN t ELSE mobileTokens
  /\ UNCHANGED <<credRest, authSide, notAuth>>

\* TuyaDeviceAPI.getDeviceList / getDeviceStatus / sendCommands, also as
\* called by a poll; the platform constructs TuyaDeviceAPI with a mobileApi
DeviceOp(op) ==
  LET client == selectClient(TRUE, mobileTokens, openTokens)
  IN AuthCall(client, op, deviceOp(op, client, mobileTokens, openTokens))

NextSelect ==
  \/ \E t \in AuthTokenChoices \ {NoTokens} : AuthSetTokens(t)
  \/ \E t \in AuthTokenChoices \ {NoTokens}, wired \in BOOLEAN : SelectRefresh(t, wired)
  \/ \E op \in DeviceOps : DeviceOp(op)

SpecSelect == InitSelect /\ [][NextSelect]_vars

\* ------------------------------------------------------------------ Cache
\* A DeviceState gives each field a value, 0 when the field is absent.
CacheStates == {[online |-> 1, brightness |-> 0], [online |-> 2, brightness |-> 0],
                [online |-> 0, brightness |-> 1]}
CacheSteps == {1, TUYA_DEVICE_TIMEOUT + 5}

\* { ...this.value, ...data }
spread(old, data) ==
  [f \in CacheFields |->
     IF data[f] # 0 THEN data[f] ELSE IF old.defined THEN old.v[f] ELSE 0]

\* Cache.valid
valid(until, value, t) == until > t /\ value.defined

\* Cache.get(always)
get(until, value, t, always) ==
  IF ~always /\ ~valid(until, value, t) THEN Undefined ELSE value

\* Cache.merge
merge(value, data) == Defined(spread(value, data))

\* a value is held that was stamped once and is valid no longer
Expired == cacheValue.defined /\ stampedAt >= 0 /\ ~valid(validUntil, cacheValue, cacheNow)

CacheOp(op, always, data, out) ==
  /\ lastOp' = [op |-> op, always |-> always, data |-> data, out |-> out,
                expiredBefore |-> Expired, at |-> cacheNow]
  /\ prevOp' = lastOp

InitCache ==
  /\ timerIdle
  /\ linkIdle
  /\ rateIdle
  /\ discIdle
  /\ encIdle
  /\ credIdle
  /\ pollIdle
  /\ authIdle
  /\ qrIdle
  /\ loadIdle
  /\ pureIdle
  /\ devIdle
  /\ cacheIdle

CacheTick(d) ==
  /\ cacheTicks < MaxCacheTicks
  /\ cacheTicks' = cacheTicks + 1
  /\ cacheNow' = cacheNow + d
  /\ UNCHANGED <<cacheValue, validUntil, lastOp, prevOp, stampedAt, cleared>>
  /\ UNCHANGED notCache

CacheSet(data) ==
  /\ validUntil' = cacheNow + TUYA_DEVICE_TIMEOUT + 5
  /\ cacheValue' = merge(cacheValue, data)
  /\ stampedAt' = cacheNow
  /\ cleared' = FALSE
  /\ CacheOp("set", FALSE, data, Undefined)
  /\ UNCHANGED <<cacheNow, cacheTicks>>
  /\ UNCHANGED notCache

\* renew: data = this.get(true); if (data) this.set(data)
CacheRenew ==
  /\ LET data == get(validUntil, cacheValue, cacheNow, TRUE)
     IN IF data.defined
        THEN /\ validUntil' = cacheNow + TUYA_DEVICE_TIMEOUT + 5
             /\ cacheValue' = merge(cacheValue, data.v)
             /\ stampedAt' = cacheNow
        ELSE UNCHANGED <<validUntil, cacheValue, stampedAt>>
  /\ CacheOp("renew", FALSE, NoState, Undefined)
  /\ UNCHANGED <<cacheNow, cacheTicks, cleared>>
  /\ UNCHANGED notCache

CacheMerge(data) ==
  /\ cacheValue' = merge(cacheValue, data)
  /\ CacheOp("merge", FALSE, data, Undefined)
  /\ UNCHANGED <<validUntil, cacheNow, cacheTicks, stampedAt, cleared>>
  /\ UNCHANGED notCache

CacheGet(always) ==
  /\ CacheOp("get", always, NoState, get(validUntil, cacheValue, cacheNow, always))
  /\ UNCHANGED <<cacheValue, validUntil, cacheNow, cacheTicks, stampedAt, cleared>>
  /\ UNCHANGED notCache

CacheClear ==
  /\ cacheValue' = Undefined
  /\ validUntil' = 0
  /\ stampedAt' = -1
  /\ cleared' = TRUE
  /\ CacheOp("clear", FALSE, NoState, Undefined)
  /\ UNCHANGED <<cacheNow, cacheTicks>>
  /\ UNCHANGED notCache

NextCache ==
  \/ \E d \in CacheSteps : CacheTick(d)
  \/ \E data \in CacheStates : CacheSet(data)
  \/ CacheRenew
  \/ \E data \in CacheStates : CacheMerge(data)
  \/ \E always \in BOOLEAN : CacheGet(always)
  \/ CacheClear

SpecCache == InitCache /\ [][NextCache]_vars

\* -------------------------------------------------------------- discovery
DiscImpls == {"sharing", "mobile"}
Homes == {1, 2}
ReportedLists == UNION {[S -> DeviceStates] : S \in SUBSET DeviceIds}
HomesReplies == {[ok |-> FALSE, list |-> {}]} \cup {[ok |-> TRUE, list |-> H] : H \in {{}, {1}, {1, 2}}}
DeviceReplies == {[ok |-> FALSE, list |-> <<>>]} \cup {[ok |-> TRUE, list |-> l] : l \in ReportedLists}

\* the lists of the homes in H, concatenated; a device id counts once
concat(H, lists) ==
  [id \in UNION {DOMAIN lists[h] : h \in H} |->
     lists[CHOOSE h \in H : id \in DOMAIN lists[h] /\ \A g \in H : id \in DOMAIN lists[g] => h <= g][id]]

\* TuyaWebApi.queryHomes (index.ts): a failure is an empty list
queryHomes(reply) == IF ~reply.ok THEN {} ELSE reply.list

\* TuyaWebApi.queryDevicesByHome (index.ts): a failure is an empty list
queryDevicesByHome(reply) == IF ~reply.ok THEN <<>> ELSE reply.list

\* TuyaWebApi.discoverDevices (index.ts)
serviceDiscoverDevices(homes, devs) ==
  [thrown |-> FALSE,
   devices |-> concat(queryHomes(homes), [h \in Homes |-> queryDevicesByHome(devs[h])])]

\* TuyaDeviceAPI.getDeviceListMobile
getDeviceListMobile(homes, devs) ==
  IF ~homes.ok THEN [thrown |-> TRUE, devices |-> <<>>]
  ELSE [thrown |-> FALSE,
        devices |-> concat(homes.list,
                           [h \in Homes |-> IF devs[h].ok THEN devs[h].list ELSE <<>>])]

\* the accessories that stay or are added, with the state each device reports
registryAfter(acc, kept, devices) ==
  [id \in kept \cup DOMAIN devices |-> IF id \in DOMAIN devices THEN devices[id] ELSE acc[id]]

InitDiscover ==
  /\ timerIdle
  /\ linkIdle
  /\ rateIdle
  /\ cacheIdle
  /\ encIdle
  /\ credIdle
  /\ pollingInterval \in PollingIntervals
  /\ pollNow = 0
  /\ pollTicks = 0
  /\ pollTimer = NoTimer
  /\ accessories \in UNION {[S -> {0}] : S \in SUBSET DeviceIds}
  /\ cycles = <<>>
  /\ authIdle
  /\ qrIdle
  /\ loadIdle
  /\ pureIdle
  /\ devIdle
  /\ discImpl \in DiscImpls
  /\ discoveredCacheUUIDs = {}
  /\ lastDiscovery = NoDiscovery

\* one run of TuyaWebPlatform.discoverDevices: part_005 over the sharing
\* service, response.ts over the encrypted client
Discover(homes, devs) ==
  /\ LET r == IF discImpl = "sharing" THEN serviceDiscoverDevices(homes, devs)
              ELSE getDeviceListMobile(homes, devs)
         uuids == IF r.thrown THEN discoveredCacheUUIDs
                  ELSE discoveredCacheUUIDs \cup DOMAIN r.devices
         kept == IF r.thrown THEN DOMAIN accessories
                 ELSE IF discImpl = "sharing" THEN DOMAIN accessories \cap DOMAIN r.devices
                 ELSE DOMAIN accessories \cap uuids
     IN /\ accessories' = IF r.thrown THEN accessories
                          ELSE registryAfter(accessories, kept, r.devices)
        /\ discoveredCacheUUIDs' = IF discImpl = "sharing" THEN discoveredCacheUUIDs ELSE uuids
        /\ pollTimer' = IF discImpl = "mobile" /\ ~r.thrown
                        THEN [armed |-> TRUE, fireAt |-> pollNow + interval]
                        ELSE pollTimer
        /\ lastDiscovery' =
             [ran |-> TRUE,
              failure |-> ~homes.ok \/ \E h \in homes.list : ~devs[h].ok,
              thrown |-> r.thrown,
              before |-> DOMAIN accessories,
              removed |-> DOMAIN accessories \ kept]
  /\ UNCHANGED <<pollingInterval, pollNow, pollTicks, cycles, discImpl>>
  /\ UNCHANGED <<credSide, authSide, qrSide, loadSide, pureSide, devSide, encSide, cacheSide,
                 rateSide, timerSide, linkSide>>

NextDiscover ==
  \E homes \in HomesReplies, devs \in [Homes -> DeviceReplies] : Discover(homes, devs)

SpecDiscover == InitDiscover /\ [][NextDiscover]_vars

\* ---------------------------------------------------------- rate limiting
minRequestInterval == 500
RateSteps == {100, minRequestInterval}

\* enforceRateLimit up to its await: whether it sleeps and until when;
\* lastRequestTime is written after the sleep
enforceRateLimit(last, t) ==
  IF t - last < minRequestInterval
  THEN [sleeps |-> TRUE, wakeAt |-> t + (minRequestInterval - (t - last)), last |-> last]
  ELSE [sleeps |-> FALSE, wakeAt |-> t, last |-> t]

InitRate ==
  /\ timerIdle
  /\ linkIdle
  /\ discIdle
  /\ cacheIdle
  /\ encIdle
  /\ credIdle
  /\ pollIdle
  /\ authIdle
  /\ qrIdle
  /\ loadIdle
  /\ pureIdle
  /\ devIdle
  /\ rateIdle

RateTick(d) ==
  /\ rateTicks < MaxRateTicks
  /\ rateTicks' = rateTicks + 1
  /\ rateNow' = rateNow + d
  /\ UNCHANGED <<lastRequestTime, reads>>
  /\ UNCHANGED notRate

\* getDeviceState is called: enforceRateLimit runs to its await, or, when it
\* need not sleep, to the request of getDeviceStatus
ReadBegin ==
  /\ Len(reads) < MaxReads
  /\ LET r == enforceRateLimit(lastRequestTime, rateNow)
         alone == \A j \in DOMAIN reads : reads[j].pc = "issued"
     IN /\ lastRequestTime' = r.last
        /\ reads' = Append(reads,
             [pc |-> IF r.sleeps THEN "sleeping" ELSE "issued", alone |-> alone,
              wakeAt |-> r.wakeAt, issuedAt |-> IF r.sleeps THEN 0 ELSE rateNow])
  /\ UNCHANGED <<rateNow, rateTicks>>
  /\ UNCHANGED notRate

\* the timeout of a sleeping call fires: lastRequestTime = Date.now(), and
\* getDeviceStatus sends its request
ReadWake(i) ==
  /\ i \in DOMAIN reads
  /\ reads[i].pc = "sleeping"
  /\ rateNow >= reads[i].wakeAt
  /\ lastRequestTime' = rateNow
  /\ reads' = [reads EXCEPT ![i].pc = "issued", ![i].issuedAt = rateNow]
  /\ UNCHANGED <<rateNow, rateTicks>>
  /\ UNCHANGED notRate

NextRate ==
  \/ \E d \in RateSteps : RateTick(d)
  \/ ReadBegin
  \/ \E i \in 1..MaxReads : ReadWake(i)

SpecRate == InitRate /\ [][NextRate]_vars

\* ------------------------------------------- freshness, as each client sees it
FreshTokens == {NoTokens} \cup
  {Tok(a, r, e) : a \in {0, 1}, r \in {0, 1},
                  e \in {MARGIN - 1, MARGIN, MARGIN + 1, MARGIN + 2, MARGIN + 3, EXTENSION}}
FreshNows == {0, 1, 2}

InitFresh ==
  /\ timerIdle
  /\ linkIdle
  /\ rateIdle
  /\ discIdle
  /\ cacheIdle
  /\ encIdle
  /\ credIdle
  /\ pollIdle
  /\ authIdle
  /\ qrIdle
  /\ loadIdle
  /\ devIdle
  /\ arg \in [tokens : FreshTokens, now : FreshNows]
  /\ result = NoResult

\* both clients hold the same TokenSet and are asked at the same time
ApplyFresh ==
  /\ ~result.done
  /\ result' = Returned([hasValidTokens |-> hasValidTokens(arg.tokens, arg.now),
                         isTokenExpired |-> isTokenExpired(arg.tokens, arg.now)])
  /\ UNCHANGED arg
  /\ UNCHANGED notPure

NextFresh == ApplyFresh

SpecFresh == InitFresh /\ [][NextFresh]_vars

\* ------------------------------------------------- the refresh timer
InstallExpiries == {MARGIN, MARGIN + 1, EXTENSION}
Handle(fireAt, tokens) == [set |-> TRUE, fireAt |-> fireAt, for |-> tokens]

\* a scheduleTokenRefresh that does not clear
clearTimeout_Keep(pending, handle) == pending

\* if (this.tokenRefreshTimer) clearTimeout(this.tokenRefreshTimer)
clearTimeout(pending, handle) == pending \ {handle}

\* scheduleTokenRefresh on the field and the runtime's timeouts
armRefresh(field, pending, tokens, t) ==
  LET remaining == clearTimeout(pending, field)
      timer == scheduleTokenRefresh(tokens, t)
  IN IF timer.armed
     THEN [field |-> Handle(timer.fireAt, tokens),
           pending |-> remaining \cup {Handle(timer.fireAt, tokens)}]
     ELSE [field |-> field, pending |-> remaining]

InitTimer ==
  /\ rateIdle
  /\ discIdle
  /\ cacheIdle
  /\ encIdle
  /\ credIdle
  /\ pollIdle
  /\ authIdle
  /\ qrIdle
  /\ loadIdle
  /\ pureIdle
  /\ devIdle
  /\ timerIdle
  /\ linkIdle

\* the clock advances; a timeout that is due runs before the clock moves on
TmTick(d) ==
  /\ tmTicks < MaxTimerTicks
  /\ \A h \in tmPending : tmNow + d <= h.fireAt
  /\ tmNow' = tmNow + d
  /\ tmTicks' = tmTicks + 1
  /\ UNCHANGED <<tmTokens, tmField, tmPending, tmInstalledAt, tmLastFire, tmDown>>
  /\ UNCHANGED notTimer

\* TuyaOpenAPI.setTokens
TmSetTokens(t) ==
  /\ ~tmDown
  /\ LET a == armRefresh(tmField, tmPending, t, tmNow)
     IN /\ tmTokens' = t
        /\ tmField' = a.field
        /\ tmPending' = a.pending
  /\ tmInstalledAt' = tmNow
  /\ UNCHANGED <<tmNow, tmTicks, tmLastFire, tmDown>>
  /\ UNCHANGED notTimer

\* refreshAccessToken with doRefreshToken: what it leaves in tokens, field and timeouts
refreshAccessToken(field, pending, tokens, t) ==
  IF ~HasRefreshToken(tokens)
  THEN [thrown |-> TRUE, tokens |-> tokens, field |-> field, pending |-> pending]
  ELSE LET fresh == doRefreshToken(tokens, t)
           a == armRefresh(field, pending, fresh, t)
       IN [thrown |-> FALSE, tokens |-> fresh, field |-> a.field, pending |-> a.pending]

\* a timeout of the runtime fires: the callback of scheduleTokenRefresh
TmFire(h) ==
  /\ h \in tmPending
  /\ tmNow >= h.fireAt
  /\ LET r == refreshAccessToken(tmField, tmPending \ {h}, tmTokens, tmNow)
     IN /\ tmTokens' = r.tokens
        /\ tmField' = r.field
        /\ tmPending' = r.pending
        /\ tmInstalledAt' = IF r.thrown THEN tmInstalledAt ELSE tmNow
        /\ tmLastFire' = [happened |-> TRUE, current |-> h = tmField,
                          forHeld |-> h.for = tmTokens,
                          attempt |-> IF r.thrown THEN "caught" ELSE "refreshed"]
  /\ UNCHANGED <<tmNow, tmTicks, tmDown>>
  /\ UNCHANGED notTimer

\* refreshAccessToken called by the encrypted client's refresh handler
TmRefresh ==
  /\ ~tmDown
  /\ tmTokens.present
  /\ LET r == refreshAccessToken(tmField, tmPending, tmTokens, tmNow)
     IN /\ tmTokens' = r.tokens
        /\ tmField' = r.field
        /\ tmPending' = r.pending
        /\ tmInstalledAt' = IF r.thrown THEN tmInstalledAt ELSE tmNow
  /\ UNCHANGED <<tmNow, tmTicks, tmLastFire, tmDown>>
  /\ UNCHANGED notTimer

\* TuyaOpenAPI.destroy
TmDestroy ==
  /\ ~tmDown
  /\ tmDown' = TRUE
  /\ tmPending' = clearTimeout(tmPending, tmField)
  /\ UNCHANGED <<tmNow, tmTicks, tmTokens, tmField, tmInstalledAt, tmLastFire>>
  /\ UNCHANGED notTimer

TmFireAny == \E h \in tmPending : TmFire(h)

NextTimer ==
  \/ \E d \in TimeSteps : TmTick(d)
  \/ \E r \in {0, 1}, e \in InstallExpiries : TmSetTokens(Tok(1, r, tmNow + e))
  \/ TmFireAny
  \/ TmRefresh
  \/ TmDestroy

SpecTimer == InitTimer /\ [][NextTimer]_vars

\* a timeout that is due does fire
LiveTimer == SpecTimer /\ WF_vars(TmFireAny)

\* ------------------------------------------------- linking with a QR code
LinkImpls == {"TuyaLinkingAuth", "TuyaUiServer"}
LinkSteps == {1, 2}
LinkLifetimes == {1, 3}     \* expire_time of a QR code

\* TuyaUiServer.checkStatus: what it returns for the provider's answer
checkStatus(reply) ==
  CASE reply = "authorized" -> "authorized"
    [] reply = "expired" -> "expired"
    [] reply = "error" -> "failed"
    [] OTHER -> "pending"

statusOf(impl, reply) ==
  IF impl = "TuyaUiServer" THEN checkStatus(reply) ELSE checkAuthStatus(reply)

\* a status check that leaves the QR code in place whatever it returns
afterStatus_Keep(state, status) == state

\* this.currentQRToken = undefined / this.linkingState = null on authorized
\* and expired
afterStatus(state, status) ==
  IF status \in {"authorized", "expired"} THEN NoLinking ELSE state

InitLink ==
  /\ timerIdle
  /\ rateIdle
  /\ discIdle
  /\ cacheIdle
  /\ encIdle
  /\ credIdle
  /\ pollIdle
  /\ authIdle
  /\ qrIdle
  /\ loadIdle
  /\ pureIdle
  /\ devIdle
  /\ lkImpl \in LinkImpls
  /\ lkNow = 0
  /\ lkTicks = 0
  /\ linkingState = NoLinking
  /\ lkIssued = 0
  /\ lkQRInFlight = 0
  /\ lkChecks = {}
  /\ lkStarted = 0
  /\ lkConsumed = {}
  /\ lkCleared = FALSE
  /\ lkLast = NoLinkOp

LinkTick(d) ==
  /\ lkTicks < MaxLinkTicks
  /\ lkNow' = lkNow + d
  /\ lkTicks' = lkTicks + 1
  /\ UNCHANGED <<lkImpl, linkingState, lkIssued, lkQRInFlight, lkChecks, lkStarted, lkConsumed,
                 lkCleared, lkLast>>
  /\ UNCHANGED notLink

\* getQRCode(userCode) / startLinking(payload): the request is sent
LinkGetQRCode ==
  /\ lkIssued + lkQRInFlight < MaxQRCodes
  /\ lkQRInFlight' = lkQRInFlight + 1
  /\ lkLast' = [op |-> "qr", local |-> FALSE, qrcode |-> 0, status |-> "sent"]
  /\ UNCHANGED <<lkImpl, lkNow, lkTicks, linkingState, lkIssued, lkChecks, lkStarted, lkConsumed,
                 lkCleared>>
  /\ UNCHANGED notLink

\* the provider answers the request for a QR code: a new code with its
\* lifetime, or a failure, which is thrown
LinkQRReply(ok, e) ==
  /\ lkQRInFlight > 0
  /\ lkQRInFlight' = lkQRInFlight - 1
  /\ IF ok
     THEN /\ lkIssued' = lkIssued + 1
          /\ linkingState' = [held |-> TRUE, qrcode |-> lkIssued + 1,
                              expiresAt |-> IF lkImpl = "TuyaUiServer" THEN lkNow + e ELSE 0]
          /\ lkCleared' = FALSE
          /\ lkLast' = [op |-> "qr", local |-> FALSE, qrcode |-> lkIssued + 1, status |-> "issued"]
     ELSE /\ lkLast' = [op |-> "qr", local |-> FALSE, qrcode |-> 0, status |-> "failed"]
          /\ UNCHANGED <<lkIssued, linkingState, lkCleared>>
  /\ UNCHANGED <<lkImpl, lkNow, lkTicks, lkChecks, lkStarted, lkConsumed>>
  /\ UNCHANGED notLink

\* checkAuthStatus() / checkStatus() is called: it fails without a request
\* when no QR code is held, the settings page answers expired once the
\* lifetime is over, and otherwise the request is sent
LinkCheck ==
  /\ lkStarted < MaxLinkChecks
  /\ lkStarted' = lkStarted + 1
  /\ IF ~linkingState.held
     THEN /\ lkLast' = [op |-> "check", local |-> TRUE, qrcode |-> 0, status |-> "failed"]
          /\ UNCHANGED <<linkingState, lkChecks, lkConsumed, lkCleared>>
     ELSE IF lkImpl = "TuyaUiServer" /\ lkNow > linkingState.expiresAt
     THEN /\ linkingState' = NoLinking
          /\ lkConsumed' = lkConsumed \cup {linkingState.qrcode}
          /\ lkCleared' = TRUE
          /\ lkLast' = [op |-> "check", local |-> TRUE, qrcode |-> linkingState.qrcode,
                        status |-> "expired"]
          /\ UNCHANGED lkChecks
     ELSE /\ lkChecks' = lkChecks \cup {[n |-> lkStarted + 1, qrcode |-> linkingState.qrcode]}
          /\ lkLast' = [op |-> "check", local |-> FALSE, qrcode |-> linkingState.qrcode,
                        status |-> "sent"]
          /\ UNCHANGED <<linkingState, lkConsumed, lkCleared>>
  /\ UNCHANGED <<lkImpl, lkNow, lkTicks, lkIssued, lkQRInFlight>>
  /\ UNCHANGED notLink

\* the provider answers a status check
LinkCheckReturn(c, reply) ==
  /\ c \in lkChecks
  /\ lkChecks' = lkChecks \ {c}
  /\ LET status == statusOf(lkImpl, reply)
     IN /\ linkingState' = afterStatus(linkingState, status)
        /\ lkConsumed' = IF status \in {"authorized", "expired"}
                         THEN lkConsumed \cup {c.qrcode} ELSE lkConsumed
        /\ lkCleared' = (lkCleared \/ status \in {"authorized", "expired"})
        /\ lkLast' = [op |-> "return", local |-> FALSE, qrcode |-> c.qrcode, status |-> status]
  /\ UNCHANGED <<lkImpl, lkNow, lkTicks, lkIssued, lkQRInFlight, lkStarted>>
  /\ UNCHANGED notLink

NextLink ==
  \/ \E d \in LinkSteps : LinkTick(d)
  \/ LinkGetQRCode
  \/ \E ok \in BOOLEAN, e \in LinkLifetimes : LinkQRReply(ok, e)
  \/ LinkCheck
  \/ \E c \in lkChecks, reply \in QRReplies : LinkCheckReturn(c, reply)

SpecLink == InitLink /\ [][NextLink]_vars

\* ------------------------------------------------------------------ claims
InFlight(o) == ~ops[o].released
OpsOf(layer) == {o \in 1..Len(ops) : ops[o].layer = layer}
Started == Len(procs') = Len(procs) + 1
Newest == procs'[Len(procs')]

\* C1: while one refresh is in flight, further refresh() calls start no
\* second underlying operation (at most one operation of a client is in
\* flight at any time), and every caller that was attached to an operation
\* ends with that operation's TokenSet.
C1_SingleFlight ==
  /\ \A a, b \in 1..Len(ops) :
       (ops[a].layer = ops[b].layer /\ InFlight(a) /\ InFlight(b)) => a = b
  /\ \A i \in 1..Len(procs) :
       (procs[i].kind # "request" /\ procs[i].pc = "done" /\ procs[i].status = "ok")
         => procs[i].val = ops[procs[i].op].val

\* C2: the guard of a client is set exactly while one of its refresh
\* operations has not yet been released by its owner, on success and on
\* failure alike, and it then names that operation; and a request that needs
\* a refresh while no operation is in flight (in particular after a failed
\* one) starts a new operation.
C2_GuardState ==
  /\ mobileIsRefreshing = (\E o \in OpsOf("mobile") : InFlight(o))
  /\ mobileIsRefreshing = (mobileRefreshPromise # 0)
  /\ mobileIsRefreshing => (ops[mobileRefreshPromise].layer = "mobile"
                            /\ InFlight(mobileRefreshPromise))
  /\ isRefreshing = (refreshPromise # 0)
  /\ isRefreshing => (ops[refreshPromise].layer = "open" /\ InFlight(refreshPromise))
  /\ variant = "extend" => (isRefreshing = (\E o \in OpsOf("open") : InFlight(o)))

C2_NewOperation ==
  (/\ Started
   /\ Newest.kind = "request"
   /\ mobileTokens.present /\ mobileTokens.refreshToken # 0
   /\ mobileTokens.expiresAt < now + 300000
   /\ \A o \in OpsOf("mobile") : ops[o].released)
  => (/\ Len(ops') > Len(ops)
      /\ ops'[Len(ops) + 1].layer = "mobile"
      /\ ops'[Len(ops) + 1].released = FALSE
      /\ Newest.mop = Len(ops) + 1
      /\ mobileRefreshPromise' = Len(ops) + 1)

C2_GuardReleased == [](C2_GuardState) /\ [][C2_NewOperation]_vars

\* a refresh failed, its guard was released, and a later refresh was started
C2_Witness ==
  \E a, b \in OpsOf("mobile") :
    a < b /\ ops[a].state = "rejected" /\ ops[a].released /\ ~mobileIsRefreshing
          /\ ops[b].released

\* C3: every refresh that completed successfully has invoked the registered
\* token-refresh listener exactly once.
C3_ListenersNotified ==
  \A o \in OpsOf("open") :
    (ops[o].state = "resolved" /\ ops[o].released) => ops[o].notified = 1

\* C4: when no refresh is in flight and no call is suspended, the signed
\* client and the encrypted client hold the same TokenSet.
C4_OneTokenSet ==
  ((\A o \in 1..Len(ops) : ops[o].released)
    /\ (\A i \in 1..Len(procs) : procs[i].pc = "done"))
  => openTokens = mobileTokens

\* C5: the validity check answers true exactly when a TokenSet is held whose
\* expiresAt lies strictly more than 300000 ms after the current time.
C5_IsValid ==
  gate.checked =>
    (gate.valid = (gate.tokens.present /\ gate.tokens.expiresAt - gate.at > 300000))

\* the check has run on a TokenSet that expires exactly 300000 ms ahead
C5_Witness ==
  /\ gate.checked /\ gate.tokens.present
  /\ gate.tokens.expiresAt - gate.at = 300000
  /\ ~gate.valid

\* C6: in the draft without server-side refresh, a refresh that starts an
\* operation changes only expiresAt, to now + 2 h, makes no network call,
\* resolves with the extended TokenSet, and leaves the TokenSet valid.
C6_Extension ==
  (/\ variant = "extend"
   /\ Len(ops') > Len(ops)
   /\ ops'[Len(ops')].layer = "open")
  => (/\ openTokens'.expiresAt = now + 7200000
      /\ openTokens'.accessToken = openTokens.accessToken
      /\ openTokens'.refreshToken = openTokens.refreshToken
      /\ openTokens'.uid = openTokens.uid
      /\ openTokens'.present
      /\ ~ops'[Len(ops')].net
      /\ ops'[Len(ops')].state = "resolved"
      /\ ops'[Len(ops')].val = openTokens'
      /\ hasValidTokens(openTokens', now'))

RejectedInstalled ==
  openTokens.present /\ openTokens.refreshToken \in rejectedTokens

C7_Terminal ==
  RejectedInstalled =>
    (/\ Len(ops') = Len(ops)
     /\ RejectedInstalled'
     /\ \A i \in 1..Len(procs') :
          (procs'[i].kind = "request" /\ procs'[i].pc = "done" /\ procs'[i].status = "ok")
            => (i <= Len(procs) /\ procs[i].pc = "done"))

C7_InvalidIsTerminal ==
  [](RejectedInstalled => ~hasValidTokens(openTokens, now)) /\ [][C7_Terminal]_vars

\* C8: the validity check that gates discovery never reports a TokenSet
\* without a refresh token as valid.
C8_NoRefreshTokenNotValid ==
  (gate.checked /\ gate.tokens.refreshToken = 0) => ~gate.valid

\* C9: refreshAccessToken() without a refresh token (or without a TokenSet)
\* ends at once with an error; it starts no operation, leaves the guard, the
\* TokenSet and an armed timer as they were.
C9_Step ==
  (/\ Started
   /\ Newest.kind \in {"direct", "timer"}
   /\ ~(openTokens.present /\ openTokens.refreshToken # 0))
  => (/\ Newest.pc = "done"
      /\ Newest.status \in {"error", "caught"}
      /\ ops' = ops
      /\ isRefreshing' = isRefreshing
      /\ refreshPromise' = refreshPromise
      /\ openTokens' = openTokens
      /\ mobileTokens' = mobileTokens
      /\ Newest.kind = "direct" => tokenRefreshTimer' = tokenRefreshTimer
      /\ Newest.kind = "timer" => ~tokenRefreshTimer'.armed)

C9_FailsLocally == [][C9_Step]_vars

\* a held TokenSet without refresh token, its timer armed, a refresh refused
C9_Witness ==
  /\ openTokens.present /\ openTokens.refreshToken = 0
  /\ tokenRefreshTimer.armed
  /\ ops = <<>>
  /\ \E i \in 1..Len(procs) : procs[i].kind = "direct" /\ procs[i].status = "error"

\* C10: a timer-fired refresh that fails ends inside the timer callback
\* (never as an error handed on), leaves both TokenSets unchanged, and a
\* later request that finds its token expired still starts or joins a
\* refresh.
TimerFailed == \E i \in 1..Len(procs) : procs[i].kind = "timer" /\ procs[i].status = "caught"

C10_State ==
  \A i \in 1..Len(procs) :
    (procs[i].kind = "timer" /\ procs[i].pc = "done") => procs[i].status \in {"ok", "caught"}

C10_Step ==
  /\ \A i \in 1..Len(procs') :
       (/\ procs'[i].kind = "timer" /\ procs'[i].pc = "done" /\ procs'[i].status # "ok"
        /\ (i > Len(procs) \/ procs[i].pc # "done"))
       => (openTokens' = openTokens /\ mobileTokens' = mobileTokens)
  /\ (/\ TimerFailed
      /\ Started
      /\ Newest.kind = "request"
      /\ mobileTokens.present /\ mobileTokens.refreshToken # 0
      /\ mobileTokens.expiresAt < now + 300000)
     => (/\ Newest.mop # 0
         /\ ~ops'[Newest.mop].released
         /\ (Newest.pc # "mobWaiter" =>
               (/\ Newest.mop = Len(ops) + 1
                /\ (openTokens.present /\ openTokens.refreshToken # 0) => Newest.op # 0)))

C11_NoTimerAfterShutdown ==
  shutdown => (~pollingTimer /\ ~tokenRefreshTimer.armed)

\* C12: a poll cycle that fails ends caught: in the step in which it fails the
\* interval timer stays armed as it was, the accessory registry and its
\* states are unchanged and no new cycle starts; and any two consecutive
\* cycles start at least one polling interval apart.
C12_FailedStep ==
  (\E c \in 1..Len(cycles) : cycles[c].state = "running" /\ cycles'[c].state = "failed")
  => (/\ pollTimer'.armed
      /\ pollTimer' = pollTimer
      /\ accessories' = accessories
      /\ Len(cycles') = Len(cycles))

C12_Spacing ==
  /\ \A c \in 1..Len(cycles) : cycles[c].state \in {"running", "ok", "failed"}
  /\ \A c \in 1..Len(cycles) :
       c > 1 => cycles[c].startedAt - cycles[c - 1].startedAt
                  >= (IF pollingInterval = 0 THEN 60000 ELSE pollingInterval * 1000)
  /\ cycles # <<>> => pollTimer.armed

C12_FailedCycleTransient == [](C12_Spacing) /\ [][C12_FailedStep]_vars

\* a cycle failed, and the next cycle started one interval later
C12_Witness ==
  \E c \in 1..Len(cycles) :
    /\ c > 1
    /\ cycles[c - 1].state = "failed"
    /\ cycles[c].startedAt - cycles[c - 1].startedAt = 30000
    /\ DOMAIN accessories = cycles[c - 1].registry
    /\ accessories # <<>>

\* C13: an authenticated operation invoked while the signed client holds no
\* access token, the encrypted client holds no TokenSet, or the sharing
\* service holds no credentials ends at once with an authentication error,
\* and no network request is issued for it.
AuthErrors == {"No access token available. Please link your account first.",
               "No refresh token available. Cannot sign Mobile API request.",
               "AuthenticationError: Not authenticated"}

C13_Step ==
  Len(authCalls') = Len(authCalls) + 1 =>
    LET c == authCalls'[Len(authCalls')]
    IN ((\/ c.client = "signed" /\ (~openTokens.present \/ openTokens.accessToken = 0)
         \/ c.client = "encrypted" /\ ~mobileTokens.present
         \/ c.client = "sharing" /\ ~customerApi)
        => (c.status = "error" /\ ~c.sent /\ c.error \in AuthErrors))

C13_NoTokenFailsLocally == [][C13_Step]_vars

\* a TokenSet with an empty access token is installed and a signed request
\* was refused; an encrypted request without any TokenSet was refused
C13_Witness ==
  /\ openTokens.present /\ openTokens.accessToken = 0
  /\ \E i, j \in 1..Len(authCalls) :
       /\ i < j
       /\ authCalls[i].client = "encrypted" /\ authCalls[i].status = "error"
       /\ authCalls[j].client = "signed" /\ authCalls[j].status = "error"

\* C14: QR polling runs with an interval of 2000 ms and a timeout of 300000 ms
\* by default, it has ended exactly when it has an outcome, once the provider
\* has answered with the expiry code it has ended with the outcome expired,
\* and after that answer no further status check is sent.
C14_State ==
  /\ qrState # "idle" => (qrParams.intervalMs = 2000 /\ qrParams.timeoutMs = 300000)
  /\ (qrState = "done") = (qrOutcome # "none")
  /\ qrExpiredReported => (qrState = "done" /\ qrOutcome = "expired")

C14_Step == qrExpiredReported => qrChecks' = qrChecks

C14_QRPollingTerminates == [](C14_State) /\ [][C14_Step]_vars

\* LoginControl alone: the answer with the expiry code ends the polling
C14_ExpiryEndsLogin ==
  (qrImpl = "LoginControl" /\ qrExpiredReported) => qrState = "done"

\* TuyaLinkingAuth alone: the default timeout is 5 minutes
C14_LinkingDefault ==
  (qrImpl = "TuyaLinkingAuth" /\ qrState # "idle") => qrParams.timeoutMs = 300000

\* C15: when the token file is missing, unreadable, not valid JSON or lacks
\* the required token fields, loading yields no stored credentials, raises
\* no error, and startup goes on with the configured tokens or the linking
\* flow.
Unusable(impl, file) ==
  \/ file.kind # "object"
  \/ impl = "TokenStorage"
       /\ ~({"accessToken", "refreshToken", "expiresAt"} \subseteq file.fields)
  \/ impl = "TuyaWebApi" /\ "token_info" \notin file.fields

C15_NoStoredCredentials ==
  (loadResult.done /\ Unusable(loadImpl, tokenFile))
  => (/\ loadResult.stored = "none"
      /\ ~loadResult.raised
      /\ loadResult.next \in {"config", "linking"})

\* C16: the cache holds at most one mapping per device id; for a device that
\* some discovery has reported, the mapping is the one built from the status
\* codes of the latest discovery that reported it; getDeviceState creates a
\* mapping only where there was none and the status read is not empty, and it
\* leaves every existing mapping as it was.
C16_State ==
  \A id \in DeviceIds :
    discovered[id].seen =>
      deviceCodeMap[id] = Mapped(buildCodeMapping(discovered[id].codes))

C16_Step ==
  lastCall'.op = "getDeviceState" =>
    \A id \in DeviceIds :
      /\ deviceCodeMap[id].has => deviceCodeMap'[id] = deviceCodeMap[id]
      /\ (~deviceCodeMap[id].has /\ deviceCodeMap'[id].has) =>
            (id = lastCall'.id /\ ~lastCall'.empty)

C16_MappingFollowsDiscovery == [](C16_State) /\ [][C16_Step]_vars

\* a device was discovered with the newer brightness code, and a later
\* getDeviceState that read only the older one left its mapping alone
C16_Witness ==
  /\ lastCall.op = "getDeviceState"
  /\ lastCall.id = 1
  /\ ~lastCall.empty
  /\ discovered[1].seen
  /\ discovered[1].codes = <<"bright_value_v2">>
  /\ deviceCodeMap[1].mapping.brightnessCode = "bright_value_v2"
  /\ ~discovered[2].seen
  /\ deviceCodeMap[2].has

\* C17: the mapping built from a list of status codes holds, for every
\* capability, the first code of its priority list that occurs anywhere in
\* the list (switch when no switch code occurs, unset for the other
\* capabilities), whatever the order of the list; <<switch_1,
\* bright_value_v2, bright_value>> gives switch_1 and bright_value_v2.
Present(codes) == {codes[i] : i \in 1..Len(codes)}

FirstOf(prio, present, default) ==
  IF \E k \in 1..Len(prio) : prio[k] \in present
  THEN prio[CHOOSE k \in 1..Len(prio) :
              prio[k] \in present /\ \A j \in 1..(k - 1) : prio[j] \notin present]
  ELSE default

C17_ResolvePriority ==
  result.done =>
    /\ result.value.switchCode = FirstOf(<<"switch_led", "switch_1", "switch">>, Present(arg.codes), "switch")
    /\ result.value.brightnessCode = FirstOf(<<"bright_value_v2", "bright_value">>, Present(arg.codes), Unset)
    /\ result.value.colourCode = FirstOf(<<"colour_data_v2", "colour_data">>, Present(arg.codes), Unset)
    /\ result.value.tempValueCode = FirstOf(<<"temp_value_v2", "temp_value">>, Present(arg.codes), Unset)
    /\ result.value.fanSpeedCode = FirstOf(<<"fan_speed_percent", "speed">>, Present(arg.codes), Unset)
    /\ (arg.codes = <<"switch_1", "bright_value_v2", "bright_value">>
          => (result.value.switchCode = "switch_1" /\ result.value.brightnessCode = "bright_value_v2"))

\* the older brightness code comes first in the list and the newer one is chosen
C17_Witness ==
  /\ result.done
  /\ arg.codes = <<"bright_value", "switch_1", "bright_value_v2">>
  /\ result.value.brightnessCode = "bright_value_v2"
  /\ result.value.switchCode = "switch_1"
  /\ result.value.colourCode = Unset

\* C18: the commands emitted for a set-colour or a set-colour-temperature
\* intent contain the work-mode command (colour, respectively white), at a
\* position before that of the value command.
ValueCodes(method) ==
  IF method = "colorSet" THEN {"colour_data", "colour_data_v2"}
  ELSE {"temp_value", "temp_value_v2"}

C18_WorkModeFirst ==
  result.done =>
    \E i, j \in 1..Len(result.value) :
      /\ i < j
      /\ result.value[i].code = "work_mode"
      /\ result.value[i].value = (IF arg.method = "colorSet" THEN "colour" ELSE "white")
      /\ result.value[j].code \in ValueCodes(arg.method)

\* the sharing service puts the work-mode command first whenever the device
\* was discovered with a work_mode status code
C18_SharingWithWorkMode ==
  (/\ result.done
   /\ arg.impl = "translateMethodToCommands"
   /\ arg.discovered
   /\ includes(arg.codes, "work_mode"))
    => C18_WorkModeFirst

\* C19: when the status array holds both the older and the newer code of a
\* property, the translated value of the property is the one of an entry
\* with the newer code, wherever the entries stand in the array.
HasCode(status, code) == \E i \in 1..Len(status) : status[i].code = code

FromEntry(impl, p, raw) ==
  IF impl = "getBrightness" THEN Defined(Round(raw, 10))
  ELSE IF p = "color"
       THEN Defined([hue |-> raw, saturation |-> Round(raw, 10), brightness |-> raw])
       ELSE Defined(raw)

C19_V2Preferred ==
  result.done =>
    \A p \in DOMAIN result.value :
      (HasCode(arg.status, V1Code[p]) /\ HasCode(arg.status, V2Code[p])) =>
        \E i \in 1..Len(arg.status) :
          /\ arg.status[i].code = V2Code[p]
          /\ result.value[p] = FromEntry(arg.impl, p, arg.status[i].value)

\* the accessory's own getter does take the newer entry
C19_GetterPrefersV2 ==
  arg.impl = "getBrightness" => C19_V2Preferred

\* C20: a brightness handed to the host is an integer from 0 to 100, for
\* every raw value of the provider and every configured minimum and maximum;
\* a computed value outside that range is clamped, and a warning is logged.
C20_BrightnessInRange ==
  (result.done /\ result.value.handed) => result.value.value \in 0..100

\* the current characteristic does clamp, and warns when it does
C20_CurrentClamps ==
  (result.done /\ arg.impl = "updateValue" /\ result.value.handed) =>
    /\ result.value.value \in 0..100
    /\ result.value.warned =>
          (arg.raw.v > rangeMapper(arg.config, arg.colorMode).max
             \/ arg.raw.v < rangeMapper(arg.config, arg.colorMode).min
             \/ rangeMapper(arg.config, arg.colorMode).max
                  < rangeMapper(arg.config, arg.colorMode).min)

\* C21: a colour temperature handed to the host is an integer number of
\* mireds from 140 to 500, for every raw value of the provider and every
\* configured minimum and maximum Kelvin; 2700 Kelvin gives 370, and a
\* computed value above 500 is clamped to 500 with a warning.
C21_MiredInRange ==
  (result.done /\ result.value.handed) =>
    /\ result.value.value \in 140..500
    /\ (arg.impl = "updateValue (Kelvin)" /\ arg.raw = 2700 /\ arg.minKelvin # 1667)
          => result.value.value = 370

\* the variant that reads Kelvin does clamp: 2700 Kelvin gives 370, and a
\* reading below the configured minimum gives the highest mired, with a warning
C21_KelvinVariantClamps ==
  (result.done /\ arg.impl = "updateValue (Kelvin)") =>
    /\ result.value.value \in 140..500
    /\ (arg.raw = 2700 /\ arg.minKelvin # 1667) => result.value.value = 370
    /\ (arg.raw = 1000 /\ arg.minKelvin = 1667) =>
          (result.value.value = 500 /\ result.value.warned)

\* C22: when the sending of a command fails, setDeviceState raises the one
\* error that belongs to the provider code of the failure: 2009
\* UnsupportedOperationError, 1100 and 1101 RateLimitError, 2013
\* DeviceOfflineError, and the failure itself for every other code; the
\* stored mappings are as they were before the call.
ErrorOfCode(code) ==
  CASE code = <<"2", "0", "0", "9">> -> "UnsupportedOperationError"
    [] code \in {<<"1", "1", "0", "0">>, <<"1", "1", "0", "1">>} -> "RateLimitError"
    [] code = <<"2", "0", "1", "3">> -> "DeviceOfflineError"
    [] OTHER -> "rethrown"

IsCode(msg) == Len(msg) > 1

C22_Step ==
  (lastCall'.op = "setDeviceState" /\ lastCall'.failed) =>
    /\ deviceCodeMap' = deviceCodeMap
    /\ IsCode(lastCall'.msg) => lastCall'.raised = ErrorOfCode(lastCall'.msg)

C22_ErrorFromProviderCode == [][C22_Step]_vars

\* the four codes themselves are mapped as the claim says, and the mappings stay
C22_ListedCodes ==
  (lastCall.op = "setDeviceState" /\ lastCall.failed /\ Len(lastCall.msg) = 4) =>
    lastCall.raised = ErrorOfCode(lastCall.msg)

\* C23: when the decryption of a response fails, by a tag mismatch or a
\* malformed envelope, the call of request() ends with a failure result and
\* nothing is thrown; the tokens, the refresh guard and the other calls are
\* as they were, and a request made afterwards can succeed.
DecryptionFailed(r) == r.state = "done" /\ r.reply \in {"tag mismatch", "malformed"}

C23_State ==
  \A i \in 1..Len(requests) : DecryptionFailed(requests[i]) => requests[i].outcome = "failure"

C23_Step ==
  \A i \in 1..Len(requests) :
    (~DecryptionFailed(requests[i]) /\ Len(requests') >= i /\ DecryptionFailed(requests'[i])) =>
      /\ mobileTokens' = mobileTokens
      /\ mobileIsRefreshing' = mobileIsRefreshing
      /\ mobileRefreshPromise' = mobileRefreshPromise
      /\ \A j \in 1..Len(requests) : j # i => requests'[j] = requests[j]

C23_DecryptionFailureIsPerCall == [](C23_State) /\ [][C23_Step]_vars

\* a call failed on a tag mismatch and a call made after it succeeded
C23_Witness ==
  /\ Len(requests) >= 2
  /\ requests[1].reply = "tag mismatch"
  /\ requests[1].outcome = "failure"
  /\ requests[2].outcome = "success"
  /\ mobileTokens.present

\* C24: every request has a secret of its own, derived from its fresh
\* request id and the refresh token held when it was sent; with several
\* requests in flight, answered in any order, each response is decrypted
\* with the secret of the request it answers, and no two requests share a
\* secret.
Decrypted(r) == r.state = "done" /\ r.reply \in {"result", "tag mismatch", "malformed"}

C24_SecretPerRequest ==
  \A i \in 1..Len(requests) :
    /\ requests[i].secret = generateSecret(requests[i].rid, requests[i].refreshToken)
    /\ Decrypted(requests[i]) => requests[i].usedSecret = requests[i].secret
    /\ requests[i].reply = "result" => requests[i].outcome = "success"
    /\ \A j \in 1..Len(requests) :
         i # j => (requests[i].rid # requests[j].rid /\ requests[i].secret # requests[j].secret)

\* two requests sent under different refresh tokens were in flight together,
\* and the first was answered while the second was still outstanding
C24_Witness ==
  /\ Len(requests) >= 2
  /\ requests[1].reply = "result"
  /\ requests[1].outcome = "success"
  /\ requests[2].state = "sent"
  /\ requests[1].refreshToken # requests[2].refreshToken

\* C25: decrypting, under the same secret, the envelope that encryption
\* made of a plaintext gives the plaintext back; and after one character of
\* the envelope has been changed, decryption fails.
C25_RoundTripAndTamper ==
  result.done =>
    /\ arg.pos = 0 => result.value = [ok |-> TRUE, plaintext |-> arg.plaintext]
    /\ arg.pos # 0 => ~result.value.ok

\* the round trip itself holds
C25_RoundTrip ==
  (result.done /\ arg.pos = 0) => result.value = [ok |-> TRUE, plaintext |-> arg.plaintext]

\* and a changed envelope never decrypts to another plaintext
C25_NeverAnotherPlaintext ==
  (result.done /\ result.value.ok) => result.value.plaintext = arg.plaintext

\* C26: for a device whose brightness code is bright_value_v2, every read
\* path gives 55 for the raw value 550 and every write path sends
\* bright_value_v2 = 1000 for the brightness 100.
C26_BrightnessV2Scale ==
  (result.done /\ arg.v2) =>
    /\ (arg.path \in ReadPaths /\ arg.value = 550) =>
          (result.value.handed /\ result.value.value = 55)
    /\ (arg.path \in WritePaths /\ arg.value = 100) =>
          result.value = Cmd("bright_value_v2", 1000)

\* the accessory's getter and TuyaDeviceAPI.setBrightness do use that scale
C26_DeviceApiScale ==
  (result.done /\ arg.v2 /\ arg.path \in {"getBrightness", "setBrightness"}) =>
    C26_BrightnessV2Scale

\* C27: for a device that reports bright_value alone, the raw value 128
\* reads as 50 within one, the brightness 50 is sent as bright_value = 128
\* within one, and a brightness whose scaled value is at least 25 reads
\* back within one of what was set.
C27_BrightnessV1RoundTrip ==
  (result.done /\ ~arg.v2) =>
    /\ (arg.path = "getBrightness" /\ arg.value = 128) =>
          result.value.value \in 49..51
    /\ arg.path \in {"convertMethodToCommands", "setBrightness"} =>
          /\ result.value.code = "bright_value"
          /\ arg.value = 50 => result.value.value \in 127..129
          /\ Round(arg.value * 255, 100) >= 25 =>
                getBrightness(<<result.value>>) \in (arg.value - 1)..(arg.value + 1)

\* the accessory's getter and TuyaDeviceAPI.setBrightness keep that round trip
C27_DeviceApiRoundTrip ==
  (result.done /\ ~arg.v2 /\ arg.path \in {"getBrightness", "setBrightness"}) =>
    C27_BrightnessV1RoundTrip

\* C28: the signature of the plain protocol is the keyed digest of
\* client_id + t + [accessToken] + nonce + (METHOD, content hash, empty line
\* and path joined by newlines); the access token is in the signed text
\* exactly when the access_token header is sent, and the headers are fixed
\* by (timestamp, nonce, accessToken, method, path, body).
C28_SignatureLayout ==
  (result.done /\ ~result.value.refused) =>
    LET h == result.value.headers
        token == IF h.access_token.defined THEN h.access_token.v ELSE <<>>
        layout == TUYA_CLIENT_ID \o arg.t \o token \o arg.nonce
                    \o toUpperCase(arg.method) \o <<"\n">>
                    \o sha256Hex(bodyText(arg.body)) \o <<"\n", "\n">> \o arg.path
    IN /\ result.value.signStr = layout
       /\ h.sign = hmacSha256HexUpper(<<>>, layout)
       /\ h.access_token.defined <=> Truthy(arg.accessToken)
       /\ h.access_token.defined => h.access_token = arg.accessToken
       /\ h.client_id = TUYA_CLIENT_ID /\ h.t = arg.t /\ h.nonce = arg.nonce
       /\ h.sign_method = "HMAC-SHA256"

C28_Witness ==
  /\ result.done
  /\ arg.impl = "TuyaLinkingAuth"
  /\ arg.body.defined
  /\ arg.method = <<"post">>
  /\ ~result.value.refused
  /\ result.value.headers.access_token = Defined(<<"at2">>)

\* C29: the device operations that reach the provider all go through one
\* client: once tokens are installed the encrypted client keeps its tokens
\* and every later operation chooses it, whatever is refreshed or installed
\* in between.
C29_Sent(i) == authCalls[i].op \in DeviceOps /\ authCalls[i].sent

C29_State ==
  \A i, j \in DOMAIN authCalls :
    (C29_Sent(i) /\ C29_Sent(j)) => authCalls[i].client = authCalls[j].client

C29_Step ==
  mobileTokens.present =>
    /\ mobileTokens'.present
    /\ Len(authCalls') > Len(authCalls) =>
          authCalls'[Len(authCalls')].client = "encrypted"

C29_OneClient == [](C29_State) /\ [][C29_Step]_vars

C29_Witness ==
  /\ Len(authCalls) >= 2
  /\ C29_Sent(1) /\ C29_Sent(2)
  /\ authCalls[1].op = "getDeviceList" /\ authCalls[2].op = "sendCommands"
  /\ openTokens # mobileTokens

\* C30: setDeviceState for a device id without a stored mapping sends no
\* command, and every command code sent for a device is a code recorded in
\* its mapping or one of the fixed codes mode and temp_set.
MappingCodes(meta) ==
  IF ~meta.has THEN {}
  ELSE {meta.mapping[f] : f \in DOMAIN meta.mapping} \ {Unset}

FixedCodes == {"mode", "temp_set"}

DefaultCodes == {"switch", "bright_value_v2", "colour_data_v2", "temp_value_v2",
                 "fan_speed_percent", "control"}

SentCodes == {lastCall.commands[k].code : k \in DOMAIN lastCall.commands}

C30_CommandFromMapping ==
  (lastCall.op = "setDeviceState" /\ lastCall.sent) =>
    /\ ~deviceCodeMap[lastCall.id].has => lastCall.commands = <<>>
    /\ SentCodes \subseteq (MappingCodes(deviceCodeMap[lastCall.id]) \cup FixedCodes)

\* a code that is not from the mapping is one of the defaults that
\* translateMethodToCommands names
C30_MappingOrDefault ==
  (lastCall.op = "setDeviceState" /\ lastCall.sent) =>
    SentCodes \subseteq (MappingCodes(deviceCodeMap[lastCall.id]) \cup FixedCodes
                            \cup DefaultCodes)

\* C31: get() without the always flag returns a state exactly when a value
\* is stored and the time is before TUYA_DEVICE_TIMEOUT + 5 seconds after the
\* most recent set() or effective renew(); after clear() it returns null
\* until the caller's next set().
C31_FreshWindow ==
  (lastOp.op = "get" /\ ~lastOp.always) =>
    (lastOp.out.defined <=>
       (cacheValue.defined /\ stampedAt >= 0
          /\ lastOp.at < stampedAt + TUYA_DEVICE_TIMEOUT + 5))

C31_FreshOnly ==
  /\ C31_FreshWindow
  /\ (lastOp.op = "get" /\ ~lastOp.always /\ cleared) => ~lastOp.out.defined

\* C40: once the cached state has expired, a get() that follows set(d)
\* returns exactly the fields of d, and a get() that follows renew() on the
\* expired cache returns null.
C40_AfterExpiredSet ==
  /\ lastOp.op = "get" /\ ~lastOp.always /\ lastOp.out.defined
  /\ prevOp.op = "set" /\ prevOp.expiredBefore

C40_ExpiredStaysGone ==
  /\ C40_AfterExpiredSet => lastOp.out.v = prevOp.data
  /\ (lastOp.op = "get" /\ ~lastOp.always /\ prevOp.op = "renew" /\ prevOp.expiredBefore)
       => ~lastOp.out.defined

\* the fields that d does carry are returned as d has them
C40_NewFieldsWin ==
  C40_AfterExpiredSet =>
    \A f \in CacheFields : prevOp.data[f] # 0 => lastOp.out.v[f] = prevOp.data[f]

\* C32: a discovery run in which the homes query or the device query of a
\* home fails unregisters no accessory.
C32_FailureRemovesNothing ==
  (lastDiscovery.ran /\ lastDiscovery.failure) => lastDiscovery.removed = {}

\* a failure that makes the device list throw removes nothing
C32_ThrownRemovesNothing ==
  (lastDiscovery.ran /\ lastDiscovery.thrown) => lastDiscovery.removed = {}

\* C33: whatever the interleaving of getDeviceState calls, two device-status
\* requests go out at least minRequestInterval apart.
C33_Apart(i, j) ==
  (reads[i].pc = "issued" /\ reads[j].pc = "issued" /\ i < j) =>
    reads[j].issuedAt - reads[i].issuedAt >= minRequestInterval
      \/ reads[i].issuedAt - reads[j].issuedAt >= minRequestInterval

C33_RateLimited == \A i, j \in DOMAIN reads : C33_Apart(i, j)

\* calls that start one after the other's request are spaced
C33_SequentialSpaced ==
  (\A i \in DOMAIN reads : reads[i].alone) => C33_RateLimited

\* C34: the state of an earlier-started poll cycle is never applied to an
\* accessory after the state of a later-started cycle has been applied to it.
C34_Step ==
  \A c \in 1..Len(cycles) :
    (cycles[c].state = "running" /\ cycles'[c].state = "ok") =>
      \A later \in (c + 1)..Len(cycles) :
        cycles[later].state = "ok" => cycles[later].applied \cap cycles'[c].applied = {}

C34_AppliedInStartOrder == [][C34_Step]_vars

\* C35: for the same TokenSet and the same time, the encrypted client's
\* isTokenExpired() is true exactly when the signed client's hasValidTokens()
\* is false.
C35_ClientsAgree ==
  result.done => (result.value.isTokenExpired <=> ~result.value.hasValidTokens)

\* away from the boundary expiresAt = now + MARGIN the two clients agree
C35_AgreeOffBoundary ==
  (result.done /\ ~(arg.tokens.present /\ arg.tokens.expiresAt = arg.now + MARGIN)) =>
    (result.value.isTokenExpired <=> ~result.value.hasValidTokens)

\* C36: before shutdown, while a TokenSet with a refresh token is held that
\* was installed or refreshed with expiresAt more than 5 minutes ahead, a
\* timeout is set for 5 minutes before that expiresAt and the clock has not
\* passed it; a timeout that is due leads to a refresh attempt, after which
\* the same holds for the refreshed TokenSet.
C36_Armed ==
  (~tmDown /\ HasRefreshToken(tmTokens) /\ tmTokens.expiresAt - MARGIN > tmInstalledAt) =>
    \E h \in tmPending :
      /\ h.fireAt = tmTokens.expiresAt - MARGIN
      /\ h.for = tmTokens
      /\ tmNow <= h.fireAt

C36_Due == \E h \in tmPending : tmNow >= h.fireAt

C36_RefreshRecurs == [](C36_Armed) /\ (C36_Due ~> ~C36_Due)

\* a timeout fired and refreshed, and the next timeout is set for the new expiry
C36_Witness ==
  /\ tmLastFire.happened /\ tmLastFire.attempt = "refreshed"
  /\ ~tmDown
  /\ tmTokens.expiresAt = tmNow + EXTENSION
  /\ tmNow > 0
  /\ \E h \in tmPending : h.fireAt = tmNow + EXTENSION - MARGIN

\* C37: at most one timeout of the refresh timer is pending, it is the one
\* the field holds and it belongs to the TokenSet held; a timeout that fires
\* is the field's own and was set for the TokenSet held at that moment.
C37_OneTimer ==
  /\ Cardinality(tmPending) <= 1
  /\ \A h \in tmPending : h = tmField /\ h.for = tmTokens
  /\ tmLastFire.happened => (tmLastFire.current /\ tmLastFire.forHeld)

\* tokens were replaced while a timeout was pending, and the timeout of the
\* replacement has fired
C37_Witness ==
  /\ tmLastFire.happened
  /\ tmInstalledAt > 0
  /\ tmTokens.refreshToken = 0
  /\ tmPending = {}
  /\ tmField # NoHandle

\* C38: when a status check returns authorized or expired the linking state
\* is cleared; from then until a QR code is installed again no QR code is
\* held, so every status check called fails without a request; and a request
\* never carries a QR code that a status check has returned authorized or
\* expired for.
C38_Cleared ==
  /\ lkCleared => ~linkingState.held
  /\ linkingState.held => linkingState.qrcode \notin lkConsumed

C38_Step ==
  /\ (lkLast'.op = "return" /\ lkChecks' # lkChecks
        /\ lkLast'.status \in {"authorized", "expired"}) => ~linkingState'.held
  /\ (lkStarted' # lkStarted /\ lkCleared) =>
        (lkChecks' = lkChecks /\ lkLast'.local /\ lkLast'.status = "failed")
  /\ \A c \in lkChecks' \ lkChecks : c.qrcode \notin lkConsumed

C38_ConsumedOnce == [](C38_Cleared) /\ [][C38_Step]_vars

\* a status check returned authorized, and the check called after it failed
\* without a request
C38_Witness ==
  /\ lkCleared
  /\ lkConsumed # {}
  /\ lkLast = [op |-> "check", local |-> TRUE, qrcode |-> 0, status |-> "failed"]
  /\ lkStarted >= 2

\* C39: the promise of pollForAuthorization is settled once, with authorized,
\* expired, timeout or error, and keeps that outcome whatever the checks
\* still in flight return; the interval timer is cancelled in the step that
\* settles it and no status check is started afterwards; once the timeout
\* has passed, the answer to a check in flight settles it.
C39_Settled ==
  (qrImpl = "TuyaLinkingAuth" /\ qrOutcome # "none") =>
    (~qrTimer.armed /\ qrState = "done")

C39_Step ==
  qrImpl = "TuyaLinkingAuth" =>
    /\ qrOutcome # "none" => (qrOutcome' = qrOutcome /\ qrChecks' = qrChecks)
    /\ (qrOutcome = "none" /\ qrOutcome' # "none") =>
         (~qrTimer'.armed /\ qrOutcome' \in {"success", "expired", "timeout", "error"})

C39_Overdue ==
  /\ qrImpl = "TuyaLinkingAuth"
  /\ qrState = "polling"
  /\ qrInFlight > 0
  /\ qrNow - qrParams.startTime > qrParams.timeoutMs

====
